---- MODULE Spec2Model ----
(***************************************************************************)
(* State-machine model of the farm-operation decision layer:               *)
(*   app/weather/service.py       WeatherService                           *)
(*   app/decision_tree/engine.py  DecisionTreeEngine                       *)
(*   app/scheduling/service.py    SchedulingService                        *)
(*                                                                         *)
(* Numbers.  Millimetres, degrees, hectares and PHP are integers.  A       *)
(* datetime is an integer count of ticks, TicksPerDay ticks to the day; a  *)
(* "YYYY-MM-DD" date string is the day number.  A yield is held in units   *)
(* of 1/YieldScale PHP, so that the impact fractions (0.1, 0.15, ...) and  *)
(* the weather multiplier 0.5 + score/100 stay exact.                      *)
(* An Optional value is <<>> (None) or <<v>>.                              *)
(***************************************************************************)
EXTENDS Integers, Sequences, FiniteSets, TLC

VARIABLES
    forecast,   \* weather_data["daily"]: the list of daily entries
    now,        \* datetime.now() of the call
    field,      \* the Field row the call is about
    db,         \* the scheduled_tasks table: the committed rows, in insert order
    call,       \* the operation invoked and its arguments
    result,     \* what the operation returned or raised
    weather_rows,   \* the weather_data table: the committed rows, in insert order
    io,         \* the network requests and table queries the call has made
    crop_parameters,    \* DecisionTreeEngine.crop_parameters: the crop table
    other       \* the request a second session is making, and the line it is at

vars == <<forecast, now, field, db, call, result, weather_rows, io, crop_parameters, other>>

----------------------------------------------------------------------------
(* Bounds of the model *)

\* ticks per day: 0 is midnight, the others are later times of the day
TicksPerDay == 2
\* the longest forecast (daily entries) drawn
MaxDays == 2

----------------------------------------------------------------------------
(* Python's values *)

None == <<>>
Some(v) == <<v>>
IsNone(o) == o = <<>>
Val(o) == o[1]

\* bool(x) of a number: 0 and 0.0 are false
Truthy(x) == x # 0
\* bool(o) of an Optional number: None and 0 are false
TruthyOpt(o) == o # <<>> /\ o[1] # 0

\* bool(d) of an Optional dict with keys: None is false
TruthyDict(o) == o # <<>>

Max(a, b) == IF a >= b THEN a ELSE b
Min(a, b) == IF a <= b THEN a ELSE b

\* timedelta(days=n)
timedelta(days) == days * TicksPerDay
\* datetime.fromisoformat("YYYY-MM-DD"): midnight of that day
fromisoformat(date) == date * TicksPerDay
\* dt.strftime("%Y-%m-%d"): the calendar day of a datetime
strftime(dt) == dt \div TicksPerDay

\* Python's >= on key tuples (k1, k2)
key_geq(a, b) == a[1] > b[1] \/ (a[1] = b[1] /\ a[2] >= b[2])

\* list.sort(key=..., reverse=True): key[i] is the key tuple of s[i].  The sort
\* is stable: entries with equal keys keep their order.
sort_reverse_last_wins(s, key) ==
    LET ins(acc, i) ==
            LET p == Cardinality({j \in 1..Len(acc) : ~key_geq(key[i], key[acc[j]])})
            IN  SubSeq(acc, 1, p) \o <<i>> \o SubSeq(acc, p + 1, Len(acc))
        order[i \in 0..Len(s)] ==
            IF i = 0 THEN <<>> ELSE ins(order[i - 1], i)
    IN  [n \in 1..Len(s) |-> s[order[Len(s)][n]]]

sort_reverse(s, key) ==
    LET ins(acc, i) ==
            LET p == Cardinality({j \in 1..Len(acc) : key_geq(key[acc[j]], key[i])})
            IN  SubSeq(acc, 1, p) \o <<i>> \o SubSeq(acc, p + 1, Len(acc))
        order[i \in 0..Len(s)] ==
            IF i = 0 THEN <<>> ELSE ins(order[i - 1], i)
    IN  [n \in 1..Len(s) |-> s[order[Len(s)][n]]]

----------------------------------------------------------------------------
(* WeatherService.get_optimal_weather_window *)

\* lines 193-207: the score of one daily entry, before the clamp
weather_score(daily_entry, requires_dry_weather) ==
    LET precipitation == daily_entry.precipitation_sum
        temp_max == daily_entry.temperature_2m_max
        rain == IF requires_dry_weather
                THEN (IF precipitation > 0 THEN precipitation * 20 ELSE 0)
                ELSE (IF precipitation > 10 THEN 30 ELSE 0)
        temp == IF Truthy(temp_max) /\ 20 <= temp_max /\ temp_max <= 30 THEN 10
                ELSE IF Truthy(temp_max) /\ (temp_max < 15 \/ temp_max > 35)
                     THEN -20
                ELSE 0
    IN  100 - rain + temp

\* a window flagged suitable only above the threshold
window_of_above_threshold(daily_entry, requires_dry_weather) ==
    LET score == weather_score(daily_entry, requires_dry_weather)
    IN  [date |-> fromisoformat(daily_entry.date),
         weather_score |-> Max(0, score),
         precipitation |-> daily_entry.precipitation_sum,
         temperature_max |-> daily_entry.temperature_2m_max,
         temperature_min |-> daily_entry.temperature_2m_min,
         is_suitable |-> score > 70]

\* lines 209-216: the window appended for one daily entry
window_of(daily_entry, requires_dry_weather) ==
    LET score == weather_score(daily_entry, requires_dry_weather)
    IN  [date |-> fromisoformat(daily_entry.date),
         weather_score |-> Max(0, score),
         precipitation |-> daily_entry.precipitation_sum,
         temperature_max |-> daily_entry.temperature_2m_max,
         temperature_min |-> daily_entry.temperature_2m_min,
         is_suitable |-> score >= 70]

\* line 188: start_date <= entry_date <= end_date, on datetimes
in_range(daily_entry, start_date, end_date) ==
    /\ start_date <= fromisoformat(daily_entry.date)
    /\ fromisoformat(daily_entry.date) <= end_date

\* a sort by score that is not stable
sort_by_score_last_wins(optimal_windows) ==
    sort_reverse_last_wins(optimal_windows,
                           [n \in 1..Len(optimal_windows) |-> <<optimal_windows[n].weather_score, 0>>])

\* line 219: optimal_windows.sort(key=weather_score, reverse=True)
sort_by_score(optimal_windows) ==
    sort_reverse(optimal_windows,
                 [n \in 1..Len(optimal_windows) |-> <<optimal_windows[n].weather_score, 0>>])

\* windows that leave out the rainy days when dry weather is required
windows_in_range_dry_days(weather_data, start_date, end_date, requires_dry_weather) ==
    LET optimal_windows[i \in 0..Len(weather_data)] ==
            IF i = 0 THEN <<>>
            ELSE optimal_windows[i - 1] \o
                 (IF /\ in_range(weather_data[i], start_date, end_date)
                     /\ ~(requires_dry_weather /\ weather_data[i].precipitation_sum > 0)
                  THEN <<window_of(weather_data[i], requires_dry_weather)>>
                  ELSE <<>>)
    IN  optimal_windows[Len(weather_data)]

\* lines 185-216: the windows appended, in the order of the daily entries
windows_in_range(weather_data, start_date, end_date, requires_dry_weather) ==
    LET optimal_windows[i \in 0..Len(weather_data)] ==
            IF i = 0 THEN <<>>
            ELSE optimal_windows[i - 1] \o
                 (IF in_range(weather_data[i], start_date, end_date)
                  THEN <<window_of(weather_data[i], requires_dry_weather)>>
                  ELSE <<>>)
    IN  optimal_windows[Len(weather_data)]

\* lines 180-221
get_optimal_weather_window(weather_data, start_date, end_date, requires_dry_weather) ==
    sort_by_score(windows_in_range(weather_data, start_date, end_date, requires_dry_weather))

----------------------------------------------------------------------------
(* WeatherService.check_weather_suitability *)

\* lines 157-158: the first daily entry dated target_date, None if there is none
find_daily_entry(weather_data, target_date) ==
    LET hits == {i \in 1..Len(weather_data) : weather_data[i].date = target_date}
    IN  IF hits = {} THEN None
        ELSE Some(weather_data[CHOOSE i \in hits : \A j \in hits : i <= j])

\* lines 146-178
check_weather_suitability(weather_data, date, requires_dry_weather) ==
    LET found == find_daily_entry(weather_data, strftime(date))
    IN  IF IsNone(found)
        THEN [is_suitable |-> TRUE, reasons |-> <<>>, risks |-> <<>>]
        ELSE LET daily_entry == Val(found)
                 precipitation == daily_entry.precipitation_sum
                 temp_max == daily_entry.temperature_2m_max
                 temp_min == daily_entry.temperature_2m_min
                 rain == requires_dry_weather /\ precipitation > 0
             IN  [is_suitable |-> ~rain,
                  reasons |-> IF rain THEN <<"Rain expected">> ELSE <<>>,
                  risks |->
                      (IF rain THEN <<"Chemical runoff risk">> ELSE <<>>)
                      \o (IF Truthy(temp_max) /\ temp_max > 35
                          THEN <<"High temperature stress">> ELSE <<>>)
                      \o (IF Truthy(temp_min) /\ temp_min < 10
                          THEN <<"Low temperature stress">> ELSE <<>>)]

----------------------------------------------------------------------------
(* DecisionTreeEngine: the lookup tables and the estimators *)

\* schemas.OperationTypeEnum / models.OperationType
OperationType ==
    {"land_preparation", "planting", "fertilization", "irrigation",
     "pest_control", "harvesting"}

\* 1 PHP in yield units: the impact fractions are hundredths and the weather
\* multiplier is in hundredths
YieldScale == 100 * 100

\* an estimate whose default for an unlisted operation ignores the area
_estimate_operation_cost_flat_default(operation_type, area_hectares) ==
    CASE operation_type = "land_preparation" -> 5000 * area_hectares
      [] operation_type = "planting" -> 3000 * area_hectares
      [] operation_type = "fertilization" -> 2000 * area_hectares
      [] operation_type = "irrigation" -> 1000 * area_hectares
      [] operation_type = "pest_control" -> 1500 * area_hectares
      [] operation_type = "harvesting" -> 4000 * area_hectares
      [] OTHER -> 1000

\* lines 303-312: PHP
_estimate_operation_cost(operation_type, area_hectares) ==
    CASE operation_type = "land_preparation" -> 5000 * area_hectares
      [] operation_type = "planting" -> 3000 * area_hectares
      [] operation_type = "fertilization" -> 2000 * area_hectares
      [] operation_type = "irrigation" -> 1000 * area_hectares
      [] operation_type = "pest_control" -> 1500 * area_hectares
      [] operation_type = "harvesting" -> 4000 * area_hectares
      [] OTHER -> 1000 * area_hectares

\* lines 318-324
base_yields(crop_type) ==
    CASE crop_type = "coconut" -> 50000
      [] crop_type = "corn" -> 30000
      [] crop_type = "rice" -> 40000
      [] OTHER -> 20000

\* lines 327-336, in hundredths
impact_factors(operation_type) ==
    CASE operation_type = "land_preparation" -> 10
      [] operation_type = "planting" -> 15
      [] operation_type = "fertilization" -> 25
      [] operation_type = "irrigation" -> 20
      [] operation_type = "pest_control" -> 15
      [] operation_type = "harvesting" -> 15
      [] OTHER -> 10

\* line 339: 0.5 + (weather_score / 100), in hundredths
weather_multiplier(score) == 50 + score

\* lines 314-343, in 1/YieldScale PHP
_predict_yield(crop_type, operation_type, score, area_hectares) ==
    base_yields(crop_type) * area_hectares * impact_factors(operation_type)
        * weather_multiplier(score)

\* lines 19-59: crop_parameters[crop]["growth_stages"].get(operation, 7), with
\* crop_parameters.get(crop_type, crop_parameters["corn"])
growth_stages(crop_type, operation) ==
    LET crop == IF crop_type \in {"coconut", "corn", "rice"} THEN crop_type ELSE "corn"
    IN  CASE operation = "land_preparation" -> (IF crop = "rice" THEN 14 ELSE 7)
          [] operation = "planting" -> 1
          [] operation = "fertilization" ->
                 (IF crop = "coconut" THEN 30 ELSE IF crop = "corn" THEN 21 ELSE 25)
          [] operation = "irrigation" ->
                 (IF crop = "coconut" THEN 7 ELSE IF crop = "corn" THEN 3 ELSE 1)
          [] operation = "pest_control" ->
                 (IF crop = "coconut" THEN 15 ELSE IF crop = "corn" THEN 14 ELSE 20)
          [] operation = "harvesting" ->
                 (IF crop = "coconut" THEN 180 ELSE IF crop = "corn" THEN 90 ELSE 120)
          [] OTHER -> 7

\* lines 18-59: the table as __init__ builds it
CropParameters ==
    [crop \in {"coconut", "corn", "rice"} |->
        [growth_stages |-> [operation \in OperationType |-> growth_stages(crop, operation)],
         optimal_temp_range |->
             (IF crop = "coconut" THEN <<25, 32>>
              ELSE IF crop = "corn" THEN <<20, 30>> ELSE <<20, 35>>),
         optimal_rainfall |->
             (IF crop = "coconut" THEN 1500 ELSE IF crop = "corn" THEN 500 ELSE 1000),
         fertilizer_frequency |->
             (IF crop = "coconut" THEN 90 ELSE IF crop = "corn" THEN 30 ELSE 35)]]

----------------------------------------------------------------------------
(* DecisionTreeEngine.predict_optimal_date *)

\* the look-ahead of line 209, in days
HorizonDays == 30

\* line 234: the window is skipped as over budget
over_budget(estimated_cost, budget_constraint) ==
    TruthyOpt(budget_constraint) /\ estimated_cost > Val(budget_constraint)

\* lines 237-247: the window with its cost, budget flag, yield and net return
annotate(window, request, area_hectares, crop_type) ==
    LET estimated_cost == _estimate_operation_cost(request.operation_type, area_hectares)
        predicted_yield == _predict_yield(crop_type, request.operation_type,
                                          window.weather_score, area_hectares)
    IN  [window |-> window,
         estimated_cost |-> estimated_cost,
         budget_ok |-> TRUE,
         predicted_yield_value |-> Some(predicted_yield),
         net_financial_return |-> Some(predicted_yield - estimated_cost * YieldScale)]

\* lines 258-259: the window with its cost and budget flag only
annotate_relaxed(window, request, area_hectares) ==
    LET estimated_cost == _estimate_operation_cost(request.operation_type, area_hectares)
    IN  [window |-> window,
         estimated_cost |-> estimated_cost,
         budget_ok |-> IF TruthyOpt(request.budget_constraint)
                       THEN estimated_cost <= Val(request.budget_constraint)
                       ELSE TRUE,
         predicted_yield_value |-> None,
         net_financial_return |-> None]

\* lines 227-249: the windows kept by the budget
budget_filter(optimal_windows, request, area_hectares, crop_type) ==
    LET suitable_windows[i \in 0..Len(optimal_windows)] ==
            IF i = 0 THEN <<>>
            ELSE suitable_windows[i - 1] \o
                 (IF over_budget(_estimate_operation_cost(request.operation_type,
                                                          area_hectares),
                                 request.budget_constraint)
                  THEN <<>>
                  ELSE <<annotate(optimal_windows[i], request, area_hectares, crop_type)>>)
    IN  suitable_windows[Len(optimal_windows)]

\* lines 251-261: every window, when the budget kept none
budget_relax(optimal_windows, request, area_hectares) ==
    [i \in 1..Len(optimal_windows) |->
        annotate_relaxed(optimal_windows[i], request, area_hectares)]

\* lines 264-267: the key (net return or 0, weather score)
sort_key(w) ==
    <<IF IsNone(w.net_financial_return) THEN 0 ELSE Val(w.net_financial_return),
      w.window.weather_score>>

\* a sort that is not stable: among equal keys the later window comes first
sort_by_return_last_wins(suitable_windows) ==
    sort_reverse_last_wins(suitable_windows,
                           [n \in 1..Len(suitable_windows) |-> sort_key(suitable_windows[n])])

\* lines 264-267: suitable_windows.sort(key=..., reverse=True)
sort_by_return(suitable_windows) ==
    sort_reverse(suitable_windows,
                 [n \in 1..Len(suitable_windows) |-> sort_key(suitable_windows[n])])

\* lines 272-276
weather_risk(precipitation) ==
    IF precipitation > 10 THEN "high"
    ELSE IF precipitation > 5 THEN "medium"
    ELSE "low"

\* lines 279-290: the phrases joined into recommendation_reason
reasons(best_window) ==
    <<[text |-> IF best_window.window.weather_score >= 80
                THEN "Excellent weather conditions"
                ELSE IF best_window.window.weather_score >= 60
                THEN "Good weather conditions"
                ELSE "Acceptable weather conditions",
       amount |-> None],
      IF best_window.budget_ok
      THEN [text |-> "Within budget constraints", amount |-> None]
      ELSE [text |-> "Estimated cost", amount |-> Some(best_window.estimated_cost)]>>

\* lines 211-221: the dry-weather windows, or when there are none the windows
\* scored without the dry-weather requirement
windows_or_fallback(dry_windows, any_windows) ==
    IF dry_windows # <<>> THEN dry_windows ELSE any_windows

\* lines 251-261: the windows the budget kept, or when it kept none all of them
kept_or_relaxed(kept, relaxed) ==
    IF kept # <<>> THEN kept ELSE relaxed

\* lines 269-299: the response built from the sorted working set.  It is
\* returned with the locals it was built from.
response(optimal_windows, suitable_windows, best_window, was_relaxed) ==
    [status |-> "ok",
     recommended_date |-> best_window.window.date,
     confidence_score |-> Min(95, best_window.window.weather_score),
     estimated_cost |-> best_window.estimated_cost,
     weather_risk |-> weather_risk(best_window.window.precipitation),
     net_financial_return |-> best_window.net_financial_return,
     recommendation_reason |-> reasons(best_window),
     relaxed |-> was_relaxed,
     optimal_windows |-> optimal_windows,
     suitable_windows |-> suitable_windows,
     best_window |-> best_window]

\* line 269: best_window = suitable_windows[0], an IndexError on an empty list
respond_sorted(optimal_windows, suitable_windows, was_relaxed) ==
    IF suitable_windows = <<>> THEN [status |-> "IndexError"]
    ELSE response(optimal_windows, suitable_windows, suitable_windows[1], was_relaxed)

\* lines 226-267: the budget filter, its relaxation and the sort
respond_kept(optimal_windows, kept, relaxed) ==
    respond_sorted(optimal_windows, sort_by_return(kept_or_relaxed(kept, relaxed)),
                   kept = <<>>)

\* lines 223-299
recommend_from(optimal_windows, request, the_field) ==
    IF optimal_windows = <<>>
    THEN [status |-> "No suitable weather windows found"]
    ELSE respond_kept(optimal_windows,
                      budget_filter(optimal_windows, request,
                                    the_field.area_hectares, the_field.crop_type),
                      budget_relax(optimal_windows, request, the_field.area_hectares))

\* lines 208-299, from the field found: start_date is now and end_date is
\* HorizonDays later
predict_optimal_date(request, weather_data, the_field, current_time) ==
    recommend_from(
        windows_or_fallback(
            get_optimal_weather_window(weather_data, current_time,
                                       current_time + timedelta(HorizonDays), TRUE),
            get_optimal_weather_window(weather_data, current_time,
                                       current_time + timedelta(HorizonDays), FALSE)),
        request, the_field)

----------------------------------------------------------------------------
(* SchedulingService *)

\* the search window of lines 71-72, in days either side
SearchDays == 7

\* lines 41-43: the operations scheduled when none are given
default_operations ==
    <<"land_preparation", "planting", "fertilization", "irrigation",
      "pest_control", "harvesting">>

\* lines 113-123
_calculate_priority(operation) ==
    CASE operation = "land_preparation" -> 1
      [] operation = "planting" -> 2
      [] operation = "fertilization" -> 3
      [] operation = "irrigation" -> 4
      [] operation = "pest_control" -> 3
      [] operation = "harvesting" -> 1
      [] OTHER -> 3

\* lines 78-83: next((w for w in optimal_windows if w["is_suitable"]),
\* optimal_windows[0])
first_suitable(optimal_windows) ==
    LET suitable == {n \in 1..Len(optimal_windows) : optimal_windows[n].is_suitable}
    IN  IF suitable # {}
        THEN optimal_windows[CHOOSE n \in suitable : \A m \in suitable : n <= m]
        ELSE optimal_windows[1]

\* a loop that never searches: the proposed date is kept whatever its weather
pick_date_keeps_proposed(weather_suitability, optimal_windows, proposed_date) ==
    proposed_date

\* lines 70-87: the date chosen, given the suitability of the proposed date and
\* the windows of the search
pick_date(weather_suitability, optimal_windows, proposed_date) ==
    IF weather_suitability.is_suitable THEN proposed_date
    ELSE IF optimal_windows # <<>> THEN first_suitable(optimal_windows).date
    ELSE proposed_date

\* a search over the days within HorizonDays of the proposed date
choose_date_within_horizon(weather_data, proposed_date) ==
    pick_date(check_weather_suitability(weather_data, proposed_date, TRUE),
              get_optimal_weather_window(weather_data,
                                         proposed_date - timedelta(HorizonDays),
                                         proposed_date + timedelta(HorizonDays), TRUE),
              proposed_date)

\* lines 66-87: the date chosen for a proposed date
choose_date(weather_data, proposed_date) ==
    pick_date(check_weather_suitability(weather_data, proposed_date, TRUE),
              get_optimal_weather_window(weather_data,
                                         proposed_date - timedelta(SearchDays),
                                         proposed_date + timedelta(SearchDays), TRUE),
              proposed_date)

\* lines 93-102 and 17-24: the row built for an operation
task_row(operation, optimal_date, the_field, user_id, recommended) ==
    [task_type |-> operation,
     scheduled_date |-> optimal_date,
     estimated_cost |-> _estimate_operation_cost(operation, the_field.area_hectares),
     requires_dry_weather |-> TRUE,
     priority |-> _calculate_priority(operation),
     field_id |-> the_field.id,
     user_id |-> user_id,
     status |-> "pending",
     decision_tree_recommendation |-> recommended]

\* models.ScheduledTask.task_type is Enum(OperationType): whether the row's
\* task_type can be stored and read back
storable(operation) == operation \in OperationType

\* how create_scheduled_task (lines 17-30) ends with the schemas of
\* schemas.py: task_data.model_dump() carries the key status
\* (schemas.ScheduledTaskBase.status, line 127) and line 23 passes status
\* again by keyword, so line 20 raises TypeError before db.add
CreateOutcomes == {"TypeError"}

\* how create_scheduled_task ends for a ScheduledTaskCreate whose dump carries
\* no status key, the schema the call of lines 20-24 is written for (it is not
\* under src): the row is constructed, and one that cannot be stored either
\*   "refresh"    is committed as written and fails in db.refresh (row kept)
\*   "commit"     is refused by the database in db.commit (row not inserted)
CreateOutcomesWithoutStatus == {"refresh", "commit"}

\* the exception create_scheduled_task raises for the operation, or "ok"
create_error(operation, created) ==
    IF created = "TypeError" THEN "TypeError"
    ELSE IF storable(operation) THEN "ok" ELSE "LookupError"

\* lines 17-30: the table after create_scheduled_task for the row: the row is
\* added when it is constructed and the database takes it
create_scheduled_task(rows, row, created) ==
    IF \/ create_error(row.task_type, created) = "ok"
       \/ (create_error(row.task_type, created) = "LookupError" /\ created = "refresh")
    THEN Append(rows, row)
    ELSE rows

\* lines 89-104 up to the commit of line 27: the operation is stored at the
\* date chosen, with the column default of decision_tree_recommendation
\* (models.py:132).  st = [current_date, tasks, task, steps, rows, error]:
\* tasks are the ids of the rows appended to scheduled_tasks, task the id of
\* the row just committed, steps the loop's locals of every pass, rows the
\* table, error the exception raised before the row is committed.
store_step(st, operation, proposed_date, optimal_date, the_field, user_id, created) ==
    LET rows == create_scheduled_task(st.rows,
                                      task_row(operation, optimal_date, the_field,
                                               user_id, FALSE),
                                      created)
    IN  [current_date |-> st.current_date,
         tasks |-> st.tasks,
         task |-> IF Len(rows) > Len(st.rows) THEN Some(Len(rows)) ELSE None,
         steps |-> Append(st.steps,
                          [operation |-> operation, anchor |-> st.current_date,
                           proposed_date |-> proposed_date,
                           optimal_date |-> optimal_date]),
         rows |-> rows,
         error |-> IF Len(rows) > Len(st.rows) THEN "ok"
                   ELSE create_error(operation, created)]

\* line 28: db.refresh(task) reads the row back through the Enum of task_type
\* and raises LookupError for a value that is no OperationType
refresh_step(st) ==
    [st EXCEPT !.error = IF storable(st.rows[Val(st.task)].task_type) THEN "ok"
                         ELSE "LookupError"]

\* lines 105-109: the row created is marked and committed (line 106: the
\* update of the one column of the one row), the task appended and the anchor
\* advanced to the date chosen
mark_step(st) ==
    [current_date |-> st.steps[Len(st.steps)].optimal_date,
     tasks |-> Append(st.tasks, Val(st.task)),
     task |-> None,
     steps |-> st.steps,
     rows |-> [st.rows EXCEPT ![Val(st.task)].decision_tree_recommendation = TRUE],
     error |-> st.error]

\* lines 66-104: the date is chosen for the proposed date and the operation stored
propose_step(st, operation, proposed_date, weather_data, the_field, user_id, created) ==
    store_step(st, operation, proposed_date, choose_date(weather_data, proposed_date),
               the_field, user_id, created)

\* a loop that advances the anchor to the proposed date, not the chosen one
schedule_step_from_proposed(st, operation, weather_data, the_field, user_id, created) ==
    IF st.error # "ok" THEN st
    ELSE propose_step(st, operation,
                      (IF st.steps = <<>> THEN st.current_date
                       ELSE st.steps[Len(st.steps)].proposed_date)
                          + timedelta(growth_stages(the_field.crop_type, operation)),
                      weather_data, the_field, user_id, created)

\* lines 62-104: one pass of the loop up to the row created; nothing runs
\* after a failure
schedule_step(st, operation, weather_data, the_field, user_id, created) ==
    IF st.error # "ok" THEN st
    ELSE propose_step(st, operation,
                      st.current_date
                          + timedelta(growth_stages(the_field.crop_type, operation)),
                      weather_data, the_field, user_id, created)

\* line 111, or the exception raised: the tasks returned are the rows of the
\* ids collected, as the table holds them when they are read (the session
\* expires its objects on every commit, database.py:18)
outcome(ops, last) ==
    [status |-> last.error,
     operations |-> ops,
     tasks |-> IF last.error # "ok" THEN <<>>
               ELSE [k \in 1..Len(last.tasks) |-> last.rows[last.tasks[k]]],
     steps |-> last.steps]

----------------------------------------------------------------------------
(* PartialBudgeting *)

\* lines 13-21: total_benefits - total_costs
net_benefit_of(input_data) ==
    (input_data.added_returns + input_data.reduced_costs)
        - (input_data.added_costs + input_data.reduced_returns)

\* abs(x)
abs(x) == IF x < 0 THEN 0 - x ELSE x

\* a recommendation that proceeds on a net benefit of 0
recommendation_proceeds_on_zero(net_benefit) ==
    IF net_benefit >= 0
    THEN [text |-> "Proceed with the change. Expected net benefit", amount |-> Some(net_benefit)]
    ELSE [text |-> "Do not proceed. Expected net loss", amount |-> Some(abs(net_benefit))]

\* lines 27-32: the text and the amount formatted into it
recommendation_of(net_benefit) ==
    IF net_benefit > 0
    THEN [text |-> "Proceed with the change. Expected net benefit", amount |-> Some(net_benefit)]
    ELSE IF net_benefit = 0
    THEN [text |-> "The change is neutral. Consider other factors before proceeding.",
          amount |-> None]
    ELSE [text |-> "Do not proceed. Expected net loss", amount |-> Some(abs(net_benefit))]

\* lines 8-38
calculate_net_benefit(input_data) ==
    [net_benefit |-> net_benefit_of(input_data),
     is_profitable |-> net_benefit_of(input_data) > 0,
     recommendation |-> recommendation_of(net_benefit_of(input_data))]

\* state.get(key, 0) of a dict given as a record of Optional values
get_or_0(state, key) == IF IsNone(state[key]) THEN 0 ELSE Val(state[key])

\* differences that are not floored at 0
farming_inputs_unfloored(current_state, proposed_state) ==
    [added_returns |-> get_or_0(proposed_state, "expected_yield_value")
                           - get_or_0(current_state, "current_yield_value"),
     reduced_returns |-> get_or_0(current_state, "current_yield_value")
                             - get_or_0(proposed_state, "expected_yield_value"),
     reduced_costs |-> get_or_0(current_state, "current_costs")
                           - get_or_0(proposed_state, "expected_costs"),
     added_costs |-> get_or_0(proposed_state, "expected_costs")
                         - get_or_0(current_state, "current_costs")]

\* lines 46-64: the PartialBudgetingInput built from the two states
farming_inputs(current_state, proposed_state) ==
    [added_returns |-> Max(0, get_or_0(proposed_state, "expected_yield_value")
                                  - get_or_0(current_state, "current_yield_value")),
     reduced_returns |-> Max(0, get_or_0(current_state, "current_yield_value")
                                    - get_or_0(proposed_state, "expected_yield_value")),
     reduced_costs |-> Max(0, get_or_0(current_state, "current_costs")
                                  - get_or_0(proposed_state, "expected_costs")),
     added_costs |-> Max(0, get_or_0(proposed_state, "expected_costs")
                                - get_or_0(current_state, "current_costs"))]

\* lines 40-66
analyze_farming_decision(current_state, proposed_state) ==
    calculate_net_benefit(farming_inputs(current_state, proposed_state))

\* lines 83-84: benefit / cost as the fraction <<numerator, denominator>> with a
\* positive denominator, 0 for a cost that is not positive.  The benefit is the
\* hint of the resource, cost * 1.5 without one.
ratio_of(cost, benefit) ==
    IF cost > 0
    THEN <<IF IsNone(benefit) THEN 3 * cost ELSE 2 * Val(benefit), 2 * cost>>
    ELSE <<0, 1>>

\* a >= b of two such fractions
ratio_geq(a, b) == a[1] * b[2] >= b[1] * a[2]

\* lines 82-84: the ratios, in the order of resources.items()
ratios_of(resources, benefits) ==
    [n \in 1..Len(resources) |->
        [resource |-> resources[n].resource,
         ratio |-> ratio_of(resources[n].cost, benefits[n])]]

\* a ranking in the order of the input
sorted_in_input_order(ratios) ==
    ratios

\* line 87: sorted(ratios.items(), key=ratio, reverse=True), a stable sort
sorted_by_ratio(ratios) ==
    LET ins(acc, i) ==
            LET p == Cardinality({j \in 1..Len(acc) :
                                     ratio_geq(ratios[acc[j]].ratio, ratios[i].ratio)})
            IN  SubSeq(acc, 1, p) \o <<i>> \o SubSeq(acc, p + 1, Len(acc))
        order[i \in 0..Len(ratios)] ==
            IF i = 0 THEN <<>> ELSE ins(order[i - 1], i)
    IN  [n \in 1..Len(ratios) |-> ratios[order[Len(ratios)][n]]]

\* line 92: resources[resource]
cost_of(resources, resource) ==
    resources[CHOOSE n \in 1..Len(resources) : resources[n].resource = resource].cost

\* an allocation that passes over a resource it cannot pay in full
allocate_step_skipping(st, resource_cost, resource) ==
    IF st.done THEN st
    ELSE IF resource_cost <= st.remaining_budget
    THEN [optimized_allocation |->
              Append(st.optimized_allocation,
                     [resource |-> resource, amount |-> resource_cost]),
          remaining_budget |-> st.remaining_budget - resource_cost,
          done |-> st.remaining_budget - resource_cost <= 0]
    ELSE st

\* lines 92-102: one pass of the loop; done is the break of line 102
allocate_step(st, resource_cost, resource) ==
    IF st.done THEN st
    ELSE IF resource_cost <= st.remaining_budget
    THEN [optimized_allocation |->
              Append(st.optimized_allocation,
                     [resource |-> resource, amount |-> resource_cost]),
          remaining_budget |-> st.remaining_budget - resource_cost,
          done |-> st.remaining_budget - resource_cost <= 0]
    ELSE [optimized_allocation |->
              Append(st.optimized_allocation,
                     [resource |-> resource, amount |-> st.remaining_budget]),
          remaining_budget |-> 0,
          done |-> TRUE]

\* lines 89-104: the allocation in the order the keys were inserted
allocate(sorted_resources, resources, total_budget) ==
    LET st[i \in 0..Len(sorted_resources)] ==
            IF i = 0
            THEN [optimized_allocation |-> <<>>, remaining_budget |-> total_budget,
                  done |-> FALSE]
            ELSE allocate_step(st[i - 1],
                               cost_of(resources, sorted_resources[i].resource),
                               sorted_resources[i].resource)
    IN  st[Len(sorted_resources)].optimized_allocation

\* lines 68-104: resources is the dict as the list of its items, benefits[n] is
\* constraints.get(resource_benefit) of the n-th of them, total_budget is
\* constraints.get("budget", 0)
optimize_resource_allocation(resources, benefits, total_budget) ==
    allocate(sorted_by_ratio(ratios_of(resources, benefits)), resources, total_budget)

----------------------------------------------------------------------------
(* The inputs drawn *)

\* the forecasts of up to MaxDays daily entries, dated in increasing order with
\* dates from the set dates, the weather of each entry drawn from the sets given
DailyEntries(dates, precs, tmaxs, tmins) ==
    [date : dates, precipitation_sum : precs,
     temperature_2m_max : tmaxs, temperature_2m_min : tmins]

ForecastsOf(entries, maxlen) ==
    UNION {{s \in [1..n -> entries] : \A i \in 1..(n - 1) : s[i].date < s[i + 1].date}
           : n \in 0..maxlen}

NoCall == [op |-> "none"]
NoResult == [status |-> "none"]
NoField == [id |-> 1, crop_type |-> "corn", area_hectares |-> 1, planting_date |-> None]

----------------------------------------------------------------------------
(* SpecRank: one call of get_optimal_weather_window on a drawn forecast *)

RankDates == 0..MaxDays
RankTimes == 0..(fromisoformat(MaxDays + 1) - 1)

\* one-entry forecasts over the whole range of values, longer ones over a few
RankForecasts ==
    ForecastsOf(DailyEntries(RankDates, {0, 1, 2, 5, 6, 10, 11, 12},
                             {-5, 0, 1, 14, 15, 19, 20, 25, 30, 31, 35, 36}, {12}), 1)
    \cup ForecastsOf(DailyEntries(RankDates, {0, 2, 12}, {0, 25, 33}, {12}), MaxDays)

InitRank ==
    /\ forecast \in RankForecasts
    /\ now = 0
    /\ field = NoField
    /\ db = <<>>
    /\ call = NoCall
    /\ result = NoResult
    /\ weather_rows = <<>>
    /\ io = <<>>
    /\ crop_parameters = CropParameters
    /\ other = NoCall

RankWindows ==
    /\ call = NoCall
    /\ \E start_date \in RankTimes, end_date \in RankTimes, requires_dry_weather \in BOOLEAN :
        /\ call' = [op |-> "rank", start_date |-> start_date, end_date |-> end_date,
                    requires_dry_weather |-> requires_dry_weather]
        /\ result' = [status |-> "ok",
                      windows |-> get_optimal_weather_window(
                                      forecast, start_date, end_date, requires_dry_weather)]
    /\ UNCHANGED <<other, crop_parameters, forecast, now, field, db, weather_rows, io>>

NextRank == RankWindows

SpecRank == InitRank /\ [][NextRank]_vars

----------------------------------------------------------------------------
(* SpecRecommend: one call of predict_optimal_date *)

\* today is day 1; the horizon ends on day 1 + HorizonDays
Today == fromisoformat(1)

RecForecasts ==
    ForecastsOf(DailyEntries({1, 2, 1 + HorizonDays, 2 + HorizonDays}, {0, 2, 6, 12}, {0, 25}, {12}), MaxDays)

RecFields ==
    [id : {1}, crop_type : {"corn", "rice"}, area_hectares : {0 - 1, 0, 1},
     planting_date : {None}]

RecRequests ==
    [operation_type : {"planting", "irrigation"},
     budget_constraint : {None, Some(0), Some(1000), Some(3000), Some(9000)}]

InitRecommend ==
    /\ forecast \in RecForecasts
    /\ now \in Today..(Today + TicksPerDay - 1)
    /\ field \in RecFields
    /\ db = <<>>
    /\ call = NoCall
    /\ result = NoResult
    /\ weather_rows = <<>>
    /\ io = <<>>
    /\ crop_parameters = CropParameters
    /\ other = NoCall

\* lines 193-299 past line 205, for a module in which the name WeatherService
\* is bound to the class of weather/service.py.  engine.py (lines 12-14)
\* imports no such name and nothing under src binds it: this outcome belongs
\* to the engine the specification describes, not to the module as it is.
Recommend ==
    /\ call = NoCall
    /\ \E request \in RecRequests :
        /\ call' = [op |-> "recommend", request |-> request]
        /\ result' = predict_optimal_date(request, forecast, field, now)
    /\ UNCHANGED <<other, crop_parameters, forecast, now, field, db, weather_rows, io>>

\* lines 193-205 of the module as it is: engine.py imports no WeatherService,
\* so line 205 raises NameError on every call that finds its field
RecommendNameError ==
    /\ call = NoCall
    /\ \E request \in RecRequests :
        call' = [op |-> "recommend", request |-> request]
    /\ result' = [status |-> "NameError"]
    /\ UNCHANGED <<other, crop_parameters, forecast, now, field, db, weather_rows, io>>

NextRecommend == Recommend \/ RecommendNameError

SpecRecommend == InitRecommend /\ [][NextRecommend]_vars

----------------------------------------------------------------------------
(* SpecSchedule: the inputs of one call of generate_optimized_schedule *)

\* the longest list of operations drawn
MaxOps == 2

\* the field was planted on day 7, at midnight; a field with no planting date
\* is scheduled from now, later that day
PlantingDay == fromisoformat(7)

SchedForecasts ==
    ForecastsOf(DailyEntries({1, 8, 11, 16}, {0, 1, 5}, {25, 36}, {12}), MaxDays)

\* models.Field (models.py:64-80) declares no location_lat and no
\* location_lon: a field read from it has no such attribute, location None.
SchedFields ==
    [id : {1}, crop_type : {"corn"}, area_hectares : {1},
     planting_date : {None, Some(PlantingDay)},
     location : {None}]

\* the fields line 55 is written for, of a Field model that declares
\* location_lat and location_lon (as models.Farm and models.WeatherData do;
\* no such Field is under src): location Some(<<location_lat, location_lon>>)
FieldsWithLocation ==
    [id : {1}, crop_type : {"corn"}, area_hectares : {1},
     planting_date : {None, Some(PlantingDay)},
     location : {Some(<<Some(0), Some(121)>>)}]

SchedOperations ==
    UNION {[1..n -> {"planting", "irrigation", "weeding"}] : n \in 0..MaxOps}

InitSchedule ==
    /\ forecast \in SchedForecasts
    /\ now = PlantingDay + 1
    /\ field \in SchedFields \cup FieldsWithLocation
    /\ db = <<>>
    /\ call = NoCall
    /\ result = NoResult
    /\ weather_rows = <<>>
    /\ io = <<>>
    /\ crop_parameters = CropParameters
    /\ other = NoCall

----------------------------------------------------------------------------
(* SpecSuitability: one call of check_weather_suitability on a drawn forecast *)

\* one-entry forecasts over the temperatures around the two thresholds and
\* around 0, longer ones over a few
SuitabilityForecasts ==
    ForecastsOf(DailyEntries(RankDates, {0, 3}, {-2, 0, 25, 35, 36}, {-3, 0, 5, 9, 10, 12}), 1)
    \cup ForecastsOf(DailyEntries(RankDates, {0, 3}, {25, 36}, {0, 12}), MaxDays)

InitSuitability ==
    /\ forecast \in SuitabilityForecasts
    /\ now = 0
    /\ field = NoField
    /\ db = <<>>
    /\ call = NoCall
    /\ result = NoResult
    /\ weather_rows = <<>>
    /\ io = <<>>
    /\ crop_parameters = CropParameters
    /\ other = NoCall

CheckSuitability ==
    /\ call = NoCall
    /\ \E date \in RankTimes, requires_dry_weather \in BOOLEAN :
        /\ call' = [op |-> "suitability", date |-> date,
                    requires_dry_weather |-> requires_dry_weather]
        /\ result' = [status |-> "ok",
                      suitability |-> check_weather_suitability(
                                          forecast, date, requires_dry_weather)]
    /\ UNCHANGED <<other, crop_parameters, forecast, now, field, db, weather_rows, io>>

NextSuitability == CheckSuitability

SpecSuitability == InitSuitability /\ [][NextSuitability]_vars

----------------------------------------------------------------------------
(* SpecEstimate: one call of _estimate_operation_cost, at an area and at a   *)
(* multiple of it, or one call of _predict_yield                             *)

MaxArea == 4
MaxFactor == 3

\* areas and factors are numbers of either sign: neither function looks at them

InitEstimate ==
    /\ forecast = <<>>
    /\ now = 0
    /\ field = NoField
    /\ db = <<>>
    /\ call = NoCall
    /\ result = NoResult
    /\ weather_rows = <<>>
    /\ io = <<>>
    /\ crop_parameters = CropParameters
    /\ other = NoCall

EstimateCost ==
    /\ call = NoCall
    /\ \E operation_type \in OperationType \cup {"weeding"}, area_hectares \in (0 - 2)..MaxArea,
          k \in (0 - 1)..MaxFactor :
        /\ call' = [op |-> "cost", operation_type |-> operation_type,
                    area_hectares |-> area_hectares, k |-> k]
        /\ result' = [status |-> "ok",
                      value |-> _estimate_operation_cost(operation_type, area_hectares),
                      scaled |-> _estimate_operation_cost(operation_type, k * area_hectares)]
    /\ UNCHANGED <<other, crop_parameters, forecast, now, field, db, weather_rows, io>>

PredictYield ==
    /\ call = NoCall
    /\ \E crop_type \in {"coconut", "corn", "rice", "cassava"}, operation_type \in OperationType \cup {"weeding"},
          score \in {0, 40, 70, 100, 110}, area_hectares \in (0 - 2)..MaxArea :
        /\ call' = [op |-> "yield", crop_type |-> crop_type,
                    operation_type |-> operation_type, weather_score |-> score,
                    area_hectares |-> area_hectares]
        /\ result' = [status |-> "ok",
                      value |-> _predict_yield(crop_type, operation_type, score,
                                               area_hectares)]
    /\ UNCHANGED <<other, crop_parameters, forecast, now, field, db, weather_rows, io>>

NextEstimate == EstimateCost \/ PredictYield

SpecEstimate == InitEstimate /\ [][NextEstimate]_vars

----------------------------------------------------------------------------
(* SpecAllocate: one call of optimize_resource_allocation *)

MaxResources == 3
MaxBudget == 7

ResourceNames == <<"A", "B", "C", "D", "E">>
AllocateCosts == {0, 1, 2, 4}
AllocateBenefits == {None, Some(3), Some(6)}

\* the dicts of up to MaxResources resources, keyed A, B, ... in that order
ResourceDicts ==
    UNION {{[n \in 1..len |-> [resource |-> ResourceNames[n], cost |-> costs[n]]] :
               costs \in [1..len -> AllocateCosts]} : len \in 0..MaxResources}

InitAllocate ==
    /\ forecast = <<>>
    /\ now = 0
    /\ field = NoField
    /\ db = <<>>
    /\ call = NoCall
    /\ result = NoResult
    /\ weather_rows = <<>>
    /\ io = <<>>
    /\ crop_parameters = CropParameters
    /\ other = NoCall

OptimizeAllocation ==
    /\ call = NoCall
    /\ \E resources \in ResourceDicts, total_budget \in 0..MaxBudget :
        \E benefits \in [1..Len(resources) -> AllocateBenefits] :
            /\ call' = [op |-> "allocate", resources |-> resources,
                        benefits |-> benefits, budget |-> total_budget]
            /\ result' = [status |-> "ok",
                          optimized_allocation |->
                              optimize_resource_allocation(resources, benefits,
                                                           total_budget)]
    /\ UNCHANGED <<other, crop_parameters, forecast, now, field, db, weather_rows, io>>

NextAllocate == OptimizeAllocation

SpecAllocate == InitAllocate /\ [][NextAllocate]_vars

----------------------------------------------------------------------------
(* SpecBudget: one call of calculate_net_benefit or of                       *)
(* analyze_farming_decision                                                   *)

\* amounts of either sign, in hundreds of PHP: the schema takes any float
BudgetAmounts == {0 - 1, 0, 1, 2, 5, 10}

\* the value of a key of a state dict, None for a key that is missing
StateValues == {None} \cup {Some(v) : v \in {0 - 1, 0, 1, 2, 5}}

InitBudget ==
    /\ forecast = <<>>
    /\ now = 0
    /\ field = NoField
    /\ db = <<>>
    /\ call = NoCall
    /\ result = NoResult
    /\ weather_rows = <<>>
    /\ io = <<>>
    /\ crop_parameters = CropParameters
    /\ other = NoCall

CalculateNetBenefit ==
    /\ call = NoCall
    /\ \E input_data \in [added_returns : BudgetAmounts, reduced_costs : BudgetAmounts,
                          added_costs : BudgetAmounts, reduced_returns : BudgetAmounts] :
        /\ call' = [op |-> "net_benefit", input_data |-> input_data]
        /\ result' = [status |-> "ok", response |-> calculate_net_benefit(input_data)]
    /\ UNCHANGED <<other, crop_parameters, forecast, now, field, db, weather_rows, io>>

\* the response is returned with the input built at lines 59-64
AnalyzeFarmingDecision ==
    /\ call = NoCall
    /\ \E current_state \in [current_yield_value : StateValues, current_costs : StateValues],
          proposed_state \in [expected_yield_value : StateValues,
                              expected_costs : StateValues] :
        /\ call' = [op |-> "analyze", current_state |-> current_state,
                    proposed_state |-> proposed_state]
        /\ result' = [status |-> "ok",
                      input_data |-> farming_inputs(current_state, proposed_state),
                      response |-> analyze_farming_decision(current_state, proposed_state)]
    /\ UNCHANGED <<other, crop_parameters, forecast, now, field, db, weather_rows, io>>

NextBudget == CalculateNetBenefit \/ AnalyzeFarmingDecision

SpecBudget == InitBudget /\ [][NextBudget]_vars

----------------------------------------------------------------------------
(* Claims C1, C2: get_optimal_weather_window (SpecRank) *)

Ranked == call.op = "rank"

\* the daily entry a window was built from (the dates of a forecast differ)
EntryOf(w) == CHOOSE e \in {forecast[i] : i \in 1..Len(forecast)} :
                  fromisoformat(e.date) = w.date

\* the score as specified, 100 - P + T, before the clamp
SpecifiedRawScore(e, requires_dry_weather) ==
    LET P == IF requires_dry_weather THEN 20 * e.precipitation_sum
             ELSE IF e.precipitation_sum > 10 THEN 30 ELSE 0
        T == IF 20 <= e.temperature_2m_max /\ e.temperature_2m_max <= 30 THEN 10
             ELSE IF e.temperature_2m_max < 15 \/ e.temperature_2m_max > 35 THEN -20
             ELSE 0
    IN  100 - P + T

SpecifiedScore(e, requires_dry_weather) == Max(0, SpecifiedRawScore(e, requires_dry_weather))

\* C1: every window reports score = max(0, 100 - P + T) for every max
\* temperature, 0 included.  Violated: a max temperature of 0 is read as
\* missing and gets no cold-weather penalty.
C1_ScoreAsSpecified ==
    Ranked =>
        \A n \in 1..Len(result.windows) :
            result.windows[n].weather_score =
                SpecifiedScore(EntryOf(result.windows[n]), call.requires_dry_weather)

\* C1, what the code does: the specified score for every max temperature but 0
C1_ScoreAsSpecifiedButAtZero ==
    Ranked =>
        \A n \in 1..Len(result.windows) :
            LET e == EntryOf(result.windows[n])
            IN  result.windows[n].weather_score =
                    IF e.temperature_2m_max = 0
                    THEN Max(0, SpecifiedRawScore(e, call.requires_dry_weather) + 20)
                    ELSE SpecifiedScore(e, call.requires_dry_weather)

\* the windows dated d
WindowsDated(d) == {n \in 1..Len(result.windows) : result.windows[n].date = fromisoformat(d)}

\* C2: exactly one window for each forecast day whose calendar date lies in
\* [start date, end date], none for any other day, whatever the time of day of
\* the two timestamps.  Violated: with a start later than midnight the forecast
\* day dated on the start's day gets no window.
C2_OneWindowPerDayOfCalendarRange ==
    Ranked =>
        \A i \in 1..Len(forecast) :
            Cardinality(WindowsDated(forecast[i].date)) =
                IF /\ strftime(call.start_date) <= forecast[i].date
                   /\ forecast[i].date <= strftime(call.end_date)
                THEN 1 ELSE 0

\* C2, what the code does: one window for each forecast day whose midnight lies
\* in [start, end] as timestamps
C2_OneWindowPerMidnightInRange ==
    Ranked =>
        \A i \in 1..Len(forecast) :
            Cardinality(WindowsDated(forecast[i].date)) =
                IF /\ call.start_date <= forecast[i].date * TicksPerDay
                   /\ forecast[i].date * TicksPerDay <= call.end_date
                THEN 1 ELSE 0

----------------------------------------------------------------------------
(* Claims C3-C6: predict_optimal_date (SpecRecommend) *)

Recommended == call.op = "recommend" /\ result.status = "ok"

\* the forecast days whose midnight is inside [now, now + 30 days]
DaysInHorizon ==
    {i \in 1..Len(forecast) :
        /\ now <= forecast[i].date * TicksPerDay
        /\ forecast[i].date * TicksPerDay <= now + HorizonDays * TicksPerDay}

\* C3: the call fails with the no-suitable-window error if and only if no
\* forecast day is inside [now, now + 30 days], and returns a Recommendation
\* otherwise, whatever the budget.  Violated: line 205 raises a NameError
\* whatever the forecast.
C3_FailsIffNoDayInHorizon ==
    call.op = "recommend" =>
        /\ result.status = "No suitable weather windows found" <=> DaysInHorizon = {}
        /\ DaysInHorizon # {} => result.status = "ok"

\* C3, what the code does from line 208 on (the weather service constructed):
\* it returns unless no forecast day is in the horizon, whatever the budget
C3_PastLine205FailsIffNoDayInHorizon ==
    (call.op = "recommend" /\ result.status # "NameError") =>
        /\ result.status = "No suitable weather windows found" <=> DaysInHorizon = {}
        /\ DaysInHorizon # {} => result.status = "ok"

CostOfRequest == _estimate_operation_cost(call.request.operation_type, field.area_hectares)

BudgetPhrase == result.recommendation_reason[2]

C4_WithinBudgetIffAffordableOrZero ==
    Recommended =>
        LET affordable == \/ IsNone(call.request.budget_constraint)
                          \/ Val(call.request.budget_constraint) = 0
                          \/ CostOfRequest <= Val(call.request.budget_constraint)
        IN  /\ result.best_window.budget_ok <=> affordable
            /\ affordable => BudgetPhrase.text = "Within budget constraints"
            /\ ~affordable => BudgetPhrase = [text |-> "Estimated cost",
                                               amount |-> Some(CostOfRequest)]

\* yield - cost of a window, in 1/YieldScale PHP
NetReturnOf(w) ==
    _predict_yield(field.crop_type, call.request.operation_type, w.weather_score,
                   field.area_hectares)
        - CostOfRequest * YieldScale

C5_NetReturnUnlessRelaxed ==
    Recommended =>
        result.net_financial_return =
            IF result.relaxed THEN None
            ELSE Some(NetReturnOf(result.best_window.window))

\* (net return, score) of a and b compared as Python compares tuples
LexLess(a, b) ==
    \/ NetReturnOf(a) < NetReturnOf(b)
    \/ NetReturnOf(a) = NetReturnOf(b) /\ a.weather_score < b.weather_score

----------------------------------------------------------------------------
(* Claims C7-C10: generate_optimized_schedule (SpecSchedule) *)

\* the call got its forecast and ran the loop
Generated == call.op = "generate" /\ call.fetched /\ call.pc \in {"returned", "raised"}

\* no update_task has been made
NoTaskUpdated ==
    /\ ~(other.op = "update_task" /\ other.pc = "line 237")
    /\ \A i \in 1..Len(io) : ~(io[i][1] = "update_task" /\ io[i][2].status = "ok")

\* the row of scheduled_tasks written for the k-th operation of the call
RowOf(k) == db[call.st.tasks[k]]

\* where the schedule starts: the planting date, or now
FirstAnchor == IF IsNone(field.planting_date) THEN now ELSE Val(field.planting_date)

NearbyEntries(p) ==
    {e \in {forecast[i] : i \in 1..Len(forecast)} :
        /\ p - SearchDays * TicksPerDay <= e.date * TicksPerDay
        /\ e.date * TicksPerDay <= p + SearchDays * TicksPerDay}

\* the single-day check rejects p: its day is in the forecast, with rain
Rejected(p) ==
    \E e \in {forecast[i] : i \in 1..Len(forecast)} :
        e.date = p \div TicksPerDay /\ e.precipitation_sum > 0

\* the dry-weather score of an entry and its suitability flag
DryScore(e) == window_of(e, TRUE).weather_score
FlaggedSuitable(e) == window_of(e, TRUE).is_suitable

\* e is the best of the set S: none scores higher
BestOf(e, S) == e \in S /\ \A o \in S : DryScore(o) <= DryScore(e)

GenerateEnded ==
    /\ call.op = "generate"
    /\ call.pc \in {"returned", "raised"}
    /\ call.field_id = field.id

\* C9: when the forecast holds no daily records, a call for a field that
\* exists fails with the no-suitable-window error and emits no
\* ScheduledOperation.  Violated: the call raises AttributeError at line 55
\* whatever the forecast holds, and nothing of lines 32-111 raises a
\* no-suitable-window error: past line 60 each pass of the loop keeps its
\* proposed date and goes on to store the operation.
C9_EmptyForecastFails ==
    (GenerateEnded /\ forecast = <<>>) =>
        result.status = "NoSuitableWindow" /\ result.tasks = <<>>

\* C9, what the code does: with a forecast of no daily records every pass of
\* the loop keeps its proposed date as the chosen date; the call fails only
\* where create_scheduled_task does, and otherwise returns one task per
\* operation at the proposed dates.
C9_EmptyForecastKeepsProposedDates ==
    (Generated /\ forecast = <<>>) =>
        /\ Len(result.steps) >= 1
        /\ \A k \in 1..Len(result.steps) :
               result.steps[k].optimal_date = result.steps[k].proposed_date
        /\ result.status =
               create_error(result.steps[Len(result.steps)].operation, call.created)
        /\ result.status = "ok" =>
               /\ Len(result.tasks) = Len(result.operations)
               /\ \A k \in 1..Len(result.tasks) :
                      NoTaskUpdated =>
                          /\ result.tasks[k].task_type = result.operations[k]
                          /\ result.tasks[k].scheduled_date = result.steps[k].proposed_date

\* a call with an empty forecast that passed the loop more than once
C9_EmptyForecastSeveralPasses ==
    /\ Generated
    /\ forecast = <<>>
    /\ Len(result.steps) >= 2

C10_EarlierOperationsStayPersisted ==
    (Generated /\ result.status # "ok") =>
        /\ Len(call.st.tasks) = Len(result.steps) - 1
        /\ \A k \in 1..(Len(result.steps) - 1) :
               /\ call.st.tasks[k] \in 1..Len(db)
               /\ RowOf(k).decision_tree_recommendation
               /\ NoTaskUpdated =>
                      /\ RowOf(k).task_type = result.operations[k]
                      /\ RowOf(k).scheduled_date = result.steps[k].optimal_date

----------------------------------------------------------------------------
(* WeatherService.get_weather_forecast and the weather_data table *)

\* An hourly time string "YYYY-MM-DDTHH:00" is the pair <<day, hour>>, with
\* TicksPerDay hours to the day.
\* datetime.fromisoformat(entry["time"])
fromisoformat_time(time) == time[1] * TicksPerDay + time[2]
\* dt.isoformat()
isoformat(dt) == <<dt \div TicksPerDay, dt % TicksPerDay>>

\* line 72, line 84: column[i] if i < len(column) else None
cell(column, i) == IF i <= Len(column) THEN Some(column[i]) ELSE None

\* lines 67-73: the hourly entries, one per time of the response
hourly_entries(hourly) ==
    [i \in 1..Len(hourly.time) |->
        [time |-> hourly.time[i],
         temperature_2m |-> cell(hourly.temperature_2m, i),
         precipitation |-> cell(hourly.precipitation, i)]]

\* lines 79-85: the daily entries, one per date of the response; a column
\* shorter than the dates gives None
daily_entries(daily) ==
    [i \in 1..Len(daily.time) |->
        [date |-> daily.time[i],
         precipitation_sum |-> cell(daily.precipitation_sum, i),
         temperature_2m_max |-> cell(daily.temperature_2m_max, i),
         temperature_2m_min |-> cell(daily.temperature_2m_min, i)]]

\* lines 53-87: the response of the provider, restructured
_process_weather_data(data, current_time) ==
    [latitude |-> data.latitude,
     longitude |-> data.longitude,
     hourly |-> hourly_entries(data.hourly),
     daily |-> daily_entries(data.daily),
     retrieved_at |-> isoformat(current_time),
     is_offline_data |-> FALSE]

\* lines 94-108: the row of one hourly entry
weather_record(entry, location_lat, location_lon) ==
    [location_lat |-> location_lat,
     location_lon |-> location_lon,
     date |-> fromisoformat_time(entry.time),
     temperature_2m |-> entry.temperature_2m,
     precipitation |-> entry.precipitation]

\* a save that keeps one forecast per location: the rows of the location are
\* replaced
save_weather_data_replacing(rows, weather_data, location_lat, location_lon) ==
    SelectSeq(rows, LAMBDA r : ~(r.location_lat = location_lat
                                 /\ r.location_lon = location_lon))
    \o [i \in 1..Len(weather_data.hourly) |->
           weather_record(weather_data.hourly[i], location_lat, location_lon)]

\* lines 89-111: one row added per hourly entry, then db.commit()
save_weather_data(rows, weather_data, location_lat, location_lon) ==
    rows \o [i \in 1..Len(weather_data.hourly) |->
                weather_record(weather_data.hourly[i], location_lat, location_lon)]

\* line 120: limit(24)
CacheLimit == 24

\* lines 117-119: the rows of the location, in insert order
rows_of_location(rows, lat, lon) ==
    SelectSeq(rows, LAMBDA r : r.location_lat = lat /\ r.location_lon = lon)

\* line 120: order_by(desc(date)): whether the row m comes before the row n.
\* The order of rows with equal dates is the database's: in insert order, or
\* the newest insert first (newest_first).
comes_before(records, newest_first, m, n) ==
    \/ records[m].date > records[n].date
    \/ /\ records[m].date = records[n].date
       /\ IF newest_first THEN m > n ELSE m < n

\* line 120: order_by(desc(date))
order_by_desc_date(records, newest_first) ==
    [k \in 1..Len(records) |->
        records[CHOOSE n \in 1..Len(records) :
                    Cardinality({m \in 1..Len(records) :
                                    comes_before(records, newest_first, m, n)}) = k - 1]]

\* line 120: limit(n)
limit(records, n) == SubSeq(records, 1, Min(n, Len(records)))

\* lines 136-142: the hourly entry of one row
fallback_entry(r) ==
    [time |-> isoformat(r.date),
     temperature_2m |-> r.temperature_2m,
     precipitation |-> r.precipitation]

\* lines 122-144, from the records read: None, or the forecast rebuilt
fallback_data(records, lat, lon) ==
    IF records = <<>> THEN None
    ELSE Some([latitude |-> lat,
               longitude |-> lon,
               hourly |-> [i \in 1..Len(records) |-> fallback_entry(records[i])],
               daily |-> <<>>,
               retrieved_at |-> isoformat(records[1].date),
               is_offline_data |-> TRUE])

\* a fallback that reads every row of the location
get_last_saved_weather_unlimited(rows, lat, lon, newest_first) ==
    CHOOSE fallback \in
        {fallback_data(records, lat, lon) :
            records \in {order_by_desc_date(matching, newest_first) :
                matching \in {rows_of_location(rows, lat, lon)}}} : TRUE

\* lines 112-144: the rows of the location, ordered, the first 24 of them, and
\* the forecast rebuilt from these (each taken from the value of the one before)
get_last_saved_weather(rows, lat, lon, newest_first) ==
    CHOOSE fallback \in
        {fallback_data(records, lat, lon) :
            records \in {limit(ordered, CacheLimit) :
                ordered \in {order_by_desc_date(matching, newest_first) :
                    matching \in {rows_of_location(rows, lat, lon)}}}} : TRUE

\* lines 48-51: the outcome of the fallback
fallback_result(cached_data) ==
    IF TruthyDict(cached_data)
    THEN [status |-> "ok", forecast |-> Val(cached_data)]
    ELSE [status |-> "Weather data unavailable online and offline"]

----------------------------------------------------------------------------
(* SpecForecast: a sequence of calls of get_weather_forecast, each in the    *)
(* steps it takes: the request to the provider (line 31), and after a failure *)
(* the read of the table (line 48)                                            *)

\* the number of calls made
MaxRequests == 3

\* <<latitude, longitude>> of the requests
Locations == {<<13, 123>>, <<14, 121>>}

\* the response of the provider for days days from the day start: TicksPerDay
\* hourly values a day, with the last precipitation value missing when short
LiveResponse(lat, lon, start, days, prec, short) ==
    [latitude |-> lat,
     longitude |-> lon,
     hourly |->
        [time |-> [i \in 1..(days * TicksPerDay) |->
                      <<start + (i - 1) \div TicksPerDay, (i - 1) % TicksPerDay>>],
         temperature_2m |-> [i \in 1..(days * TicksPerDay) |-> 25 + start],
         precipitation |-> [i \in 1..(days * TicksPerDay - (IF short THEN 1 ELSE 0)) |-> prec]],
     daily |->
        [time |-> [d \in 1..days |-> start + d - 1],
         precipitation_sum |-> [d \in 1..days |-> prec * TicksPerDay],
         temperature_2m_max |-> [d \in 1..days |-> 25 + start],
         temperature_2m_min |-> [d \in 1..days |-> 12]]]

\* a week of values, or one day with or without its last value
LiveResponses(lat, lon) ==
    {LiveResponse(lat, lon, start, 7, 2, FALSE) : start \in {0, 3}}
    \cup {LiveResponse(lat, lon, start, 1, 2, short) : start \in {0, 3}, short \in BOOLEAN}

InitForecast ==
    /\ forecast = <<>>
    /\ now = 0
    /\ field = NoField
    /\ db = <<>>
    /\ call = NoCall
    /\ result = NoResult
    /\ weather_rows = <<>>
    /\ io = <<>>
    /\ crop_parameters = CropParameters
    /\ other = NoCall

\* where the call is: at a line of get_weather_forecast, or ended
pc == IF call.op \in {"forecast", "generate"} THEN call.pc ELSE "none"

\* the calls made so far
requests_made == IF call = NoCall THEN 0 ELSE call.seq

\* line 16: a call is made, once the one before it has ended
RequestForecast ==
    /\ pc \in {"none", "returned", "raised"}
    /\ requests_made < MaxRequests
    /\ \E location \in Locations :
        call' = [op |-> "forecast", latitude |-> location[1],
                 longitude |-> location[2], pc |-> "line 31",
                 seq |-> requests_made + 1, fetched |-> None]
    /\ result' = NoResult
    /\ io' = <<>>
    /\ UNCHANGED <<other, crop_parameters, forecast, now, field, db, weather_rows>>

\* lines 31-42: the provider answers; the forecast is saved and returned
FetchReturns ==
    /\ pc = "line 31"
    /\ \E data \in LiveResponses(call.latitude, call.longitude) :
        \E weather_data \in {_process_weather_data(data, now)} :
            /\ result' = [status |-> "ok", forecast |-> weather_data]
            /\ weather_rows' = save_weather_data(weather_rows, weather_data,
                                                 call.latitude, call.longitude)
            /\ call' = [call EXCEPT !.pc = "returned", !.fetched = Some(weather_data)]
    /\ io' = Append(io, "requests.get")
    /\ UNCHANGED <<other, crop_parameters, forecast, now, field, db>>

\* lines 31-40, 44-47: the provider answers and the forecast is processed, but
\* db.commit() of line 111 raises inside the try block: no row is written and
\* the handler of line 44 takes over as for a failed request
SaveRaises ==
    /\ pc = "line 31"
    /\ \E data \in LiveResponses(call.latitude, call.longitude) :
        \E weather_data \in {_process_weather_data(data, now)} :
            call' = [call EXCEPT !.pc = "line 48", !.fetched = Some(weather_data)]
    /\ io' = Append(io, "requests.get")
    /\ UNCHANGED <<other, crop_parameters, forecast, now, field, db, result, weather_rows>>

\* lines 31-32, 44-47: the request raises (no connection, a timeout after 10
\* seconds, an error status)
FetchRaises ==
    /\ pc = "line 31"
    /\ io' = Append(io, "requests.get")
    /\ call' = [call EXCEPT !.pc = "line 48"]
    /\ UNCHANGED <<other, crop_parameters, forecast, now, field, db, result, weather_rows>>

\* the call ends with the outcome out
Ended(out) ==
    /\ result' = out
    /\ call' = [call EXCEPT !.pc = IF out.status = "ok" THEN "returned" ELSE "raised"]

\* lines 48-51: the table is read once, and the call returns what it holds or
\* raises
ReadCache ==
    /\ pc = "line 48"
    /\ \E newest_first \in BOOLEAN :
        \E cached_data \in {get_last_saved_weather(weather_rows, call.latitude,
                                                    call.longitude, newest_first)} :
            \E out \in {fallback_result(cached_data)} : Ended(out)
    /\ io' = Append(io, "query")
    /\ UNCHANGED <<other, crop_parameters, forecast, now, field, db, weather_rows>>

\* line 48 after a commit that raised: the query is made on the session of
\* the failed commit, and raises when that session has not been rolled back
ReadCacheRaises ==
    /\ pc = "line 48"
    /\ call.fetched # None
    /\ Ended([status |-> "query raised"])
    /\ io' = Append(io, "query")
    /\ UNCHANGED <<other, crop_parameters, forecast, now, field, db, weather_rows>>

NextForecast ==
    \/ RequestForecast
    \/ FetchReturns
    \/ FetchRaises
    \/ SaveRaises
    \/ ReadCache
    \/ ReadCacheRaises

SpecForecast == InitForecast /\ [][NextForecast]_vars

\* requests.get is given timeout=10 and the query is answered: a step that can
\* be taken is taken
SpecForecastFair ==
    /\ SpecForecast
    /\ WF_vars(FetchReturns \/ FetchRaises)
    /\ WF_vars(ReadCache)

----------------------------------------------------------------------------
(* SpecSchedule: one call of generate_optimized_schedule in the steps it     *)
(* takes (the forecast call of line 60, the commit of line 27, the commit of *)
(* line 106), among the other requests on scheduled_tasks                    *)

\* the requests a second session makes besides the call, one after the other:
\* update_task, create_scheduled_task, get_scheduled_tasks
MaxOtherRequests == 1

\* In this specification io holds <<name, payload>> of every request made,
\* appended when the request ends.
other_requests ==
    Cardinality({i \in 1..Len(io) : io[i][1] \notin {"requests.get", "query"}})

\* lines 55-56: x or default
or_default(x, default) == IF IsNone(x) \/ ~Truthy(Val(x)) THEN default ELSE Val(x)

\* the response of the provider for the forecast of the daily entries daily:
\* the hourly columns hold the first hour of each day
ScheduleResponse(lat, lon, daily) ==
    [latitude |-> lat,
     longitude |-> lon,
     hourly |->
        [time |-> [i \in 1..Len(daily) |-> <<daily[i].date, 0>>],
         temperature_2m |-> [i \in 1..Len(daily) |-> daily[i].temperature_2m_max],
         precipitation |-> [i \in 1..Len(daily) |-> daily[i].precipitation_sum]],
     daily |->
        [time |-> [i \in 1..Len(daily) |-> daily[i].date],
         precipitation_sum |-> [i \in 1..Len(daily) |-> daily[i].precipitation_sum],
         temperature_2m_max |-> [i \in 1..Len(daily) |-> daily[i].temperature_2m_max],
         temperature_2m_min |-> [i \in 1..Len(daily) |-> daily[i].temperature_2m_min]]]

\* weather/service.py lines 157, 185: weather_data.get("daily", []), the
\* entries as the loop reads them (every column of the response complete)
daily_of(weather_data) ==
    [i \in 1..Len(weather_data.daily) |->
        [date |-> weather_data.daily[i].date,
         precipitation_sum |-> Val(weather_data.daily[i].precipitation_sum),
         temperature_2m_max |-> Val(weather_data.daily[i].temperature_2m_max),
         temperature_2m_min |-> Val(weather_data.daily[i].temperature_2m_min)]]

\* lines 32-46: the call is made and is at the line at, with the locals
\* before the first pass
Generating(operations, created, at) ==
    call' = [op |-> "generate", field_id |-> field.id,
             operations |-> operations, created |-> created,
             fetched |-> FALSE, pc |-> at,
             ops |-> IF operations = <<>> THEN default_operations ELSE operations,
             weather_data |-> <<>>,
             st |-> [current_date |-> IF IsNone(field.planting_date) THEN now
                                      ELSE Val(field.planting_date),
                     tasks |-> <<>>, task |-> None, steps |-> <<>>, rows |-> <<>>,
                     error |-> "ok"]]

\* lines 36-39: no row of fields has the id asked for, and line 39 raises.
\* The locals of lines 41-46 are never assigned.
GenerateScheduleNoField ==
    /\ call = NoCall
    /\ \E operations \in SchedOperations :
        call' = [op |-> "generate", field_id |-> field.id + 1,
                 operations |-> operations, created |-> "none",
                 fetched |-> FALSE, pc |-> "raised", ops |-> <<>>,
                 weather_data |-> <<>>,
                 st |-> [current_date |-> 0, tasks |-> <<>>, task |-> None,
                         steps |-> <<>>, rows |-> <<>>, error |-> "Exception"]]
    /\ result' = [status |-> "Field not found", operations |-> <<>>,
                  tasks |-> <<>>, steps |-> <<>>]
    /\ UNCHANGED <<other, crop_parameters, forecast, now, field, db, weather_rows, io>>

\* lines 36-58 with models.Field as it is: line 55 reads field.location_lat
\* and raises AttributeError
GenerateScheduleNoLocation ==
    /\ call = NoCall
    /\ IsNone(field.location)
    /\ \E operations \in SchedOperations : Generating(operations, "none", "raised")
    /\ result' = [status |-> "AttributeError", operations |-> <<>>,
                  tasks |-> <<>>, steps |-> <<>>]
    /\ UNCHANGED <<other, crop_parameters, forecast, now, field, db, weather_rows, io>>

\* lines 36-58 for a field of FieldsWithLocation, which has the two
\* attributes: the call reaches line 60.  created is how create_scheduled_task
\* ends for the schema in use.
GenerateScheduleStart ==
    /\ call = NoCall
    /\ ~IsNone(field.location)
    /\ \E operations \in SchedOperations, created \in CreateOutcomes \cup CreateOutcomesWithoutStatus :
        Generating(operations, created, "line 60")
    /\ UNCHANGED <<other, crop_parameters, forecast, now, field, db, result, weather_rows, io>>

\* line 60 with the WeatherService of weather/service.py:
\* get_weather_forecast(self, db, request) is called with one argument and
\* raises TypeError before any request
GenerateScheduleNoForecast ==
    /\ pc = "line 60"
    /\ call.op = "generate"
    /\ call' = [call EXCEPT !.pc = "raised"]
    /\ result' = [status |-> "forecast call raised", operations |-> <<>>,
                  tasks |-> <<>>, steps |-> <<>>]
    /\ UNCHANGED <<other, crop_parameters, forecast, now, field, db, weather_rows, io>>

\* line 60 for a weather_service whose get_weather_forecast takes the request
\* alone (the service line 60 is written for; none is under src) and does what
\* lines 31-42 of weather/service.py do: the provider answers, the hourly rows
\* are saved and committed and the forecast is returned
GenerateScheduleFetch ==
    /\ pc = "line 60"
    /\ call.op = "generate"
    /\ \E data \in {ScheduleResponse(or_default(Val(field.location)[1], 13),
                                     or_default(Val(field.location)[2], 123),
                                     forecast)} :
        \E weather_data \in {_process_weather_data(data, now)} :
            /\ weather_rows' = save_weather_data(weather_rows, weather_data,
                                                 data.latitude, data.longitude)
            /\ call' = [call EXCEPT !.pc = "line 62", !.fetched = TRUE,
                                    !.weather_data = daily_of(weather_data)]
    /\ io' = Append(io, <<"requests.get", <<>>>>)
    /\ UNCHANGED <<other, crop_parameters, forecast, now, field, db, result>>

\* line 60 for the same weather_service, doing what lines 31-51 of
\* weather/service.py do when the request, or the save of line 40, raises: the
\* table is read and the call goes on with the cached forecast of the location
\* (which has no daily entry), or raises when there is none
GenerateScheduleFetchRaises ==
    /\ pc = "line 60"
    /\ call.op = "generate"
    /\ \E newest_first \in BOOLEAN :
        \E out \in {fallback_result(
                        get_last_saved_weather(weather_rows,
                                               or_default(Val(field.location)[1], 13),
                                               or_default(Val(field.location)[2], 123),
                                               newest_first))} :
            IF out.status = "ok"
            THEN /\ call' = [call EXCEPT !.pc = "line 62", !.fetched = TRUE,
                                         !.weather_data = daily_of(out.forecast)]
                 /\ UNCHANGED result
            ELSE /\ call' = [call EXCEPT !.pc = "raised"]
                 /\ result' = [status |-> "forecast call raised", operations |-> <<>>,
                               tasks |-> <<>>, steps |-> <<>>]
    /\ io' = io \o << <<"requests.get", <<>> >>, <<"query", <<>> >> >>
    /\ UNCHANGED <<other, crop_parameters, forecast, now, field, db, weather_rows>>

\* lines 62-104 and 17-27: one pass up to the commit of create_scheduled_task,
\* or the exception raised before the row is committed (line 20, or the
\* commit itself).  The locals are kept between two steps and the table is
\* read again at each.
GenerateSchedulePass ==
    /\ pc = "line 62"
    /\ call.op = "generate"
    /\ Len(call.st.steps) < Len(call.ops)
    /\ \E after \in {schedule_step([call.st EXCEPT !.rows = db],
                                    call.ops[Len(call.st.steps) + 1],
                                    call.weather_data, field, 1, call.created)} :
        /\ db' = after.rows
        /\ IF after.error = "ok"
           THEN /\ call' = [call EXCEPT !.st = [after EXCEPT !.rows = <<>>],
                                        !.pc = "line 28"]
                /\ UNCHANGED result
           ELSE /\ call' = [call EXCEPT !.st = [after EXCEPT !.rows = <<>>],
                                        !.pc = "raised"]
                /\ result' = outcome(call.ops, after)
    /\ UNCHANGED <<other, crop_parameters, forecast, now, field, weather_rows, io>>

\* line 28: the row committed is read back, and the call goes on to line 105
\* or raises
GenerateScheduleRefresh ==
    /\ pc = "line 28"
    /\ call.op = "generate"
    /\ \E after \in {refresh_step([call.st EXCEPT !.rows = db])} :
        IF after.error = "ok"
        THEN /\ call' = [call EXCEPT !.pc = "line 105"]
             /\ UNCHANGED result
        ELSE /\ call' = [call EXCEPT !.st = [after EXCEPT !.rows = <<>>],
                                     !.pc = "raised"]
             /\ result' = outcome(call.ops, after)
    /\ UNCHANGED <<other, crop_parameters, forecast, now, field, db, weather_rows, io>>

\* lines 105-109: the row is marked as recommended and committed
GenerateScheduleMark ==
    /\ pc = "line 105"
    /\ \E after \in {mark_step([call.st EXCEPT !.rows = db])} :
        /\ db' = after.rows
        /\ call' = [call EXCEPT !.st = [after EXCEPT !.rows = <<>>], !.pc = "line 62"]
    /\ UNCHANGED <<other, crop_parameters, forecast, now, field, result, weather_rows, io>>

\* line 111: the loop is over and the tasks are returned
GenerateScheduleReturns ==
    /\ pc = "line 62"
    /\ call.op = "generate"
    /\ Len(call.st.steps) = Len(call.ops)
    /\ call' = [call EXCEPT !.pc = "returned"]
    /\ result' = outcome(call.ops, [call.st EXCEPT !.rows = db])
    /\ UNCHANGED <<other, crop_parameters, forecast, now, field, db, weather_rows, io>>

\* routes/scheduling.py lines 211-227: update_task of the user 1 for the id
\* task_id, with the fields the request sets (model_dump(exclude_unset=True),
\* line 231).  Line 224 reads the row: 404 when the user has no such task,
\* LookupError when its task_type cannot be read back.
UpdateTask ==
    /\ other = NoCall
    /\ other_requests < MaxOtherRequests
    /\ \E task_id \in 1..(Len(db) + 1),
          update_data \in {[scheduled_date |-> fromisoformat(1)],
                           [status |-> "completed"],
                           [task_type |-> "harvesting"]} :
        IF task_id > Len(db) \/ db[task_id].user_id # 1
        THEN /\ io' = Append(io, <<"update_task", [status |-> "404"]>>)
             /\ UNCHANGED other
        ELSE IF ~storable(db[task_id].task_type)
        THEN /\ io' = Append(io, <<"update_task", [status |-> "LookupError"]>>)
             /\ UNCHANGED other
        ELSE /\ other' = [op |-> "update_task", task_id |-> task_id,
                          update_data |-> update_data, pc |-> "line 234"]
             /\ UNCHANGED io
    /\ UNCHANGED <<crop_parameters, forecast, now, field, db, call, result, weather_rows>>

\* routes/scheduling.py lines 234-235: the columns named are replaced in the
\* row of the id, and committed
UpdateTaskCommit ==
    /\ other.op = "update_task"
    /\ other.pc = "line 234"
    /\ db' = [db EXCEPT ![other.task_id] =
                 [k \in DOMAIN db[other.task_id] |->
                     IF k \in DOMAIN other.update_data THEN other.update_data[k]
                     ELSE db[other.task_id][k]]]
    /\ other' = [other EXCEPT !.pc = "line 237"]
    /\ UNCHANGED <<crop_parameters, forecast, now, field, call, result, weather_rows, io>>

\* routes/scheduling.py line 237: the row is read again and returned
UpdateTaskReturns ==
    /\ other.op = "update_task"
    /\ other.pc = "line 237"
    /\ io' = Append(io, <<"update_task",
                          IF storable(db[other.task_id].task_type)
                          THEN [status |-> "ok", task |-> db[other.task_id]]
                          ELSE [status |-> "LookupError"]>>)
    /\ other' = NoCall
    /\ UNCHANGED <<crop_parameters, forecast, now, field, db, call, result, weather_rows>>

\* lines 17-27: create_scheduled_task called on its own for an irrigation task
\* of the field, in the build of the generate call, up to its commit
CreateScheduledTask ==
    /\ other = NoCall
    /\ other_requests < MaxOtherRequests
    /\ \E created \in (IF call.op = "generate" /\ call.created # "none"
                        THEN {call.created}
                        ELSE CreateOutcomes \cup CreateOutcomesWithoutStatus) :
        /\ db' = create_scheduled_task(db, task_row("irrigation", now, field, 1, FALSE),
                                       created)
        /\ IF Len(db') > Len(db)
           THEN /\ other' = [op |-> "create_scheduled_task", task_id |-> Len(db'),
                             pc |-> "line 28"]
                /\ UNCHANGED io
           ELSE /\ io' = Append(io, <<"create_scheduled_task",
                                     [status |-> create_error("irrigation", created)]>>)
                /\ UNCHANGED other
    /\ UNCHANGED <<crop_parameters, forecast, now, field, call, result, weather_rows>>

\* lines 28-30: the row committed is read back and returned
CreateScheduledTaskRefresh ==
    /\ other.op = "create_scheduled_task"
    /\ other.pc = "line 28"
    /\ io' = Append(io, <<"create_scheduled_task",
                          IF storable(db[other.task_id].task_type)
                          THEN [status |-> "ok", task |-> db[other.task_id]]
                          ELSE [status |-> "LookupError"]>>)
    /\ other' = NoCall
    /\ UNCHANGED <<crop_parameters, forecast, now, field, db, call, result, weather_rows>>

\* routes/scheduling.py lines 48-60 with no filter given: the tasks of the
\* user, ordered by scheduled_date (line 59), or LookupError when one of them
\* has a task_type that cannot be read back.  The order of rows of one date
\* is the database's: in insert order, or the newest insert first.
tasks_of_user(rows, user_id, newest_first) ==
    LET mine == SelectSeq(rows, LAMBDA r : r.user_id = user_id)
        before(m, n) ==
            \/ mine[m].scheduled_date < mine[n].scheduled_date
            \/ /\ mine[m].scheduled_date = mine[n].scheduled_date
               /\ IF newest_first THEN m > n ELSE m < n
    IN  IF \E n \in 1..Len(mine) : ~storable(mine[n].task_type)
        THEN [status |-> "LookupError"]
        ELSE [status |-> "ok",
              tasks |-> [k \in 1..Len(mine) |->
                            mine[CHOOSE n \in 1..Len(mine) :
                                     Cardinality({m \in 1..Len(mine) : before(m, n)})
                                         = k - 1]]]

\* routes/scheduling.py lines 39-60: get_scheduled_tasks of the user 1 reads
\* the committed rows
GetScheduledTasks ==
    /\ other = NoCall
    /\ other_requests < MaxOtherRequests
    /\ \E newest_first \in BOOLEAN :
        io' = Append(io, <<"get_scheduled_tasks", tasks_of_user(db, 1, newest_first)>>)
    /\ UNCHANGED <<other, crop_parameters, forecast, now, field, db, call, result, weather_rows>>

NextSchedule ==
    \/ GenerateScheduleNoField
    \/ GenerateScheduleNoLocation
    \/ GenerateScheduleStart
    \/ GenerateScheduleNoForecast
    \/ GenerateScheduleFetch
    \/ GenerateScheduleFetchRaises
    \/ GenerateSchedulePass
    \/ GenerateScheduleRefresh
    \/ GenerateScheduleMark
    \/ GenerateScheduleReturns
    \/ UpdateTask
    \/ UpdateTaskCommit
    \/ UpdateTaskReturns
    \/ CreateScheduledTask
    \/ CreateScheduledTaskRefresh
    \/ GetScheduledTasks

SpecSchedule == InitSchedule /\ [][NextSchedule]_vars

----------------------------------------------------------------------------
(* Claims C11-C13: get_weather_forecast and the cache (SpecForecast) *)

\* the call has ended
CallEnded == pc \in {"returned", "raised"}

\* the call ended through the fallback after a request that failed
FellBack == CallEnded /\ io # <<"requests.get">> /\ call.fetched = None

\* the rows cached for the location of the call
CachedHere ==
    {n \in 1..Len(weather_rows) :
        /\ weather_rows[n].location_lat = call.latitude
        /\ weather_rows[n].location_lon = call.longitude}

\* the rows cached for the location of the call at the time dt, and later
CachedAt(dt) == {n \in CachedHere : weather_rows[n].date = dt}
CachedAfter(dt) == {n \in CachedHere : weather_rows[n].date > dt}

\* the hourly entries of the forecast returned that are of the time dt
ReturnedAt(dt) ==
    {i \in 1..Len(result.forecast.hourly) :
        result.forecast.hourly[i].time = <<dt \div TicksPerDay, dt % TicksPerDay>>}

\* every hourly entry returned is a row cached for the location
ReturnedFromCache ==
    \A i \in 1..Len(result.forecast.hourly) :
        \E n \in CachedHere :
            /\ result.forecast.hourly[i].time =
                   <<weather_rows[n].date \div TicksPerDay,
                     weather_rows[n].date % TicksPerDay>>
            /\ result.forecast.hourly[i].temperature_2m = weather_rows[n].temperature_2m
            /\ result.forecast.hourly[i].precipitation = weather_rows[n].precipitation

\* the hourly entries returned are the 24 most recent rows: of each time, as
\* many as are cached, as far as the 24 are not used up by later times
ReturnedMostRecent ==
    /\ Len(result.forecast.hourly) <= 24
    /\ \A n \in CachedHere :
        LET dt == weather_rows[n].date
            left == 24 - Cardinality(CachedAfter(dt))
        IN  Cardinality(ReturnedAt(dt)) =
                IF left <= 0 THEN 0
                ELSE IF Cardinality(CachedAt(dt)) <= left
                THEN Cardinality(CachedAt(dt)) ELSE left

\* the requests made to the provider and the reads of the table, in order
C11_OneAttemptOneRead ==
    /\ pc = "line 31" => io = <<>>
    /\ pc = "line 48" => io = <<"requests.get">>
    /\ CallEnded => io \in {<<"requests.get">>, <<"requests.get", "query">>}
    /\ FellBack =>
        IF CachedHere = {}
        THEN result.status = "Weather data unavailable online and offline"
        ELSE /\ result.status = "ok"
             /\ result.forecast.latitude = call.latitude
             /\ result.forecast.longitude = call.longitude
             /\ ReturnedFromCache
             /\ ReturnedMostRecent

\* C11: a call whose request to the provider fails has made one request and
\* then reads the table once, for its location: it returns a forecast of the
\* 24 most recent rows of the location (fewer if fewer are cached), or raises
\* the data-unavailable error if there are none; it never requests again, and
\* every call ends.
C11_FailedFetchFallsBackOnce ==
    /\ []C11_OneAttemptOneRead
    /\ (pc = "line 31") ~> CallEnded

\* C11 witness: a fallback that returned 24 rows of more than 24 cached for
\* the location
C11_Witness ==
    /\ FellBack
    /\ result.status = "ok"
    /\ Len(result.forecast.hourly) = 24
    /\ Cardinality(CachedHere) > 24

\* the days of which the fallback forecast returned holds an hourly entry
FallbackDays == {result.forecast.hourly[i].time[1] : i \in 1..Len(result.forecast.hourly)}

\* the range the windows are asked for: all the days a response can cover
RangeStart == fromisoformat(0)
RangeEnd == fromisoformat(3 + 7 + 1)

\* the windows ranked from the forecast returned
WindowsOfResult(requires_dry_weather) ==
    get_optimal_weather_window(result.forecast.daily, RangeStart, RangeEnd,
                               requires_dry_weather)

\* C12: the forecast the fallback returns ranks like a live one: there is a
\* window for each cached day in the range asked for.  Violated: the fallback
\* forecast has no daily entries, and the windows are ranked from the daily
\* entries.
C12_FallbackRanksCachedDays ==
    (FellBack /\ result.status = "ok") =>
        \A requires_dry_weather \in BOOLEAN :
            \A d \in FallbackDays :
                (RangeStart <= fromisoformat(d) /\ fromisoformat(d) <= RangeEnd) =>
                    \E n \in 1..Len(WindowsOfResult(requires_dry_weather)) :
                        WindowsOfResult(requires_dry_weather)[n].date = fromisoformat(d)

\* C12, what the code does: a live forecast ranks one window per day of the
\* response; a fallback forecast has hourly entries only and ranks no window
C12_FallbackRanksNothing ==
    (CallEnded /\ result.status = "ok") =>
        IF FellBack
        THEN /\ result.forecast.daily = <<>>
             /\ result.forecast.hourly # <<>>
             /\ \A requires_dry_weather \in BOOLEAN :
                    WindowsOfResult(requires_dry_weather) = <<>>
        ELSE \A requires_dry_weather \in BOOLEAN :
                 /\ Len(WindowsOfResult(requires_dry_weather)) = Len(result.forecast.daily)
                 /\ result.forecast.daily # <<>>

\* every row of the table is still there after the step, where it was and as
\* it was
RowsKept ==
    /\ Len(weather_rows') >= Len(weather_rows)
    /\ \A n \in 1..Len(weather_rows) : weather_rows'[n] = weather_rows[n]

\* the step is a request that fails, or the read of the table after it
StepOfFailedFetch == pc' = "line 48" \/ pc = "line 48"

\* C13: the cache is append-only: no step of a forecast request changes or
\* removes a row written before, and the steps of a failed fetch write nothing.
C13_CacheAppendOnly ==
    [][/\ RowsKept
       /\ StepOfFailedFetch => weather_rows' = weather_rows]_vars

\* C13 witness: the table after a fetch that wrote rows, a second that wrote
\* more rows for the same location, and a third that failed
C13_Witness ==
    /\ FellBack
    /\ call.seq = 3
    /\ Cardinality(CachedHere) >= 2 * TicksPerDay
    /\ \E n \in CachedHere, m \in CachedHere :
        n < m /\ weather_rows[n].date = weather_rows[m].date

----------------------------------------------------------------------------
(* Claims C14, C15: the windows of get_optimal_weather_window (SpecRank) *)

\* C14: every window returned has a score >= 0 and is flagged suitable if and
\* only if its score is >= 70, a score of exactly 70 included.
C14_ScoreClampedAndFlaggedFrom70 ==
    Ranked =>
        \A n \in 1..Len(result.windows) :
            /\ result.windows[n].weather_score >= 0
            /\ result.windows[n].is_suitable <=> result.windows[n].weather_score >= 70

\* C14 witness: a day of precipitation 12 ranked without the dry-weather
\* requirement and without a temperature term scores exactly 70 and is flagged,
\* beside a call with a window clamped to 0
C14_Witness ==
    /\ Ranked
    /\ ~call.requires_dry_weather
    /\ \E n \in 1..Len(result.windows) :
        /\ result.windows[n].precipitation = 12
        /\ result.windows[n].weather_score = 70
        /\ result.windows[n].is_suitable

\* a window whose score was clamped: the score computed is below 0
C14_ClampedWindow ==
    /\ Ranked
    /\ \E n \in 1..Len(result.windows) :
        /\ result.windows[n].weather_score = 0
        /\ weather_score(EntryOf(result.windows[n]), call.requires_dry_weather) < 0

\* the place in the forecast of the day of the window w
PlaceOf(w) == CHOOSE i \in 1..Len(forecast) : fromisoformat(forecast[i].date) = w.date

\* C15: the windows are returned in non-increasing order of score, and windows
\* of equal score in the order of their days in the forecast.
C15_SortedByScoreStable ==
    Ranked =>
        \A n \in 1..Len(result.windows), m \in 1..Len(result.windows) :
            n < m =>
                /\ result.windows[n].weather_score >= result.windows[m].weather_score
                /\ result.windows[n].weather_score = result.windows[m].weather_score
                       => PlaceOf(result.windows[n]) < PlaceOf(result.windows[m])

\* C15 witness: two windows of equal score returned, and a later day ranked
\* before an earlier one
C15_Witness ==
    /\ Ranked
    /\ Len(result.windows) >= 2
    /\ result.windows[1].weather_score = result.windows[2].weather_score

C15_LaterDayFirst ==
    /\ Ranked
    /\ Len(result.windows) >= 2
    /\ result.windows[1].weather_score > result.windows[2].weather_score
    /\ result.windows[1].date > result.windows[2].date

----------------------------------------------------------------------------
(* Claim C16: check_weather_suitability (SpecSuitability) *)

\* the call checked a day that the forecast holds
CheckedPresentDay ==
    /\ call.op = "suitability"
    /\ \E i \in 1..Len(forecast) : forecast[i].date = strftime(call.date)

\* the first entry of the forecast for the day checked
DayChecked == Val(find_daily_entry(forecast, strftime(call.date)))

HasTemperatureStress ==
    \E n \in 1..Len(result.suitability.risks) :
        result.suitability.risks[n] \in {"High temperature stress", "Low temperature stress"}

\* C16: for a day present in the forecast the answer is unsuitable if and only
\* if dry weather is required and the day's precipitation is above 0, and the
\* risks hold a temperature-stress entry whenever the day's maximum is above 35
\* or its minimum below 10, a minimum of 0 or below included.
C16_SuitabilityOfPresentDay ==
    CheckedPresentDay =>
        /\ ~result.suitability.is_suitable
               <=> (call.requires_dry_weather /\ DayChecked.precipitation_sum > 0)
        /\ (DayChecked.temperature_2m_max > 35 \/ DayChecked.temperature_2m_min < 10)
               => HasTemperatureStress

\* what the code does hold to: the flag as claimed, and the low-temperature
\* risk for every minimum below 10 other than 0
C16_StressExceptAtZero ==
    CheckedPresentDay =>
        /\ ~result.suitability.is_suitable
               <=> (call.requires_dry_weather /\ DayChecked.precipitation_sum > 0)
        /\ (\/ DayChecked.temperature_2m_max > 35
            \/ (DayChecked.temperature_2m_min < 10 /\ DayChecked.temperature_2m_min # 0))
               <=> HasTemperatureStress

\* a minimum of exactly 0 and a maximum within bounds: no risk is reported
C16_ZeroMinimumNoRisk ==
    /\ CheckedPresentDay
    /\ DayChecked.temperature_2m_min = 0
    /\ DayChecked.temperature_2m_max <= 35
    /\ ~HasTemperatureStress

\* a minimum below 0 is reported
C16_NegativeMinimumReported ==
    /\ CheckedPresentDay
    /\ DayChecked.temperature_2m_min < 0
    /\ DayChecked.temperature_2m_max <= 35
    /\ HasTemperatureStress

----------------------------------------------------------------------------
(* Claim C17: the weather multiplier of the windows ranked (SpecRank) *)

\* C17: for every window returned by get_optimal_weather_window the multiplier
\* 0.5 + score/100 applied by _predict_yield lies between 0.5 and 1.5.
C17_MultiplierWithinRange ==
    Ranked =>
        \A n \in 1..Len(result.windows) :
            /\ weather_multiplier(result.windows[n].weather_score) >= 50
            /\ weather_multiplier(result.windows[n].weather_score) <= 150

\* the range the code keeps to: 0.5 to 1.6
C17_MultiplierUpTo160 ==
    Ranked =>
        \A n \in 1..Len(result.windows) :
            /\ weather_multiplier(result.windows[n].weather_score) >= 50
            /\ weather_multiplier(result.windows[n].weather_score) <= 160

\* a dry day of maximum 25 scores 110: the multiplier is 1.6
C17_MultiplierAbove150 ==
    /\ Ranked
    /\ \E n \in 1..Len(result.windows) :
        /\ result.windows[n].precipitation = 0
        /\ result.windows[n].temperature_max = 25
        /\ result.windows[n].weather_score = 110
        /\ weather_multiplier(result.windows[n].weather_score) = 160

----------------------------------------------------------------------------
(* Claims C18, C19: the estimators (SpecEstimate) *)

\* the unit costs the claim lists, PHP per hectare
UnitCost(operation_type) ==
    CASE operation_type = "land_preparation" -> 5000
      [] operation_type = "planting" -> 3000
      [] operation_type = "fertilization" -> 2000
      [] operation_type = "irrigation" -> 1000
      [] operation_type = "pest_control" -> 1500
      [] operation_type = "harvesting" -> 4000
      [] OTHER -> 1000

\* C18: the cost estimated is the unit cost of the operation times the area,
\* 1000 times the area for an operation not listed, and the cost of k times
\* the area is k times the cost of the area.
C18_CostLinearInArea ==
    call.op = "cost" =>
        /\ result.value = UnitCost(call.operation_type) * call.area_hectares
        /\ result.scaled = call.k * result.value

\* C18 witness: an operation not listed, at 2 ha and at 3 times 2 ha
C18_Witness ==
    /\ call.op = "cost"
    /\ call.operation_type = "weeding"
    /\ call.area_hectares = 2
    /\ call.k = 3
    /\ result.value = 2000
    /\ result.scaled = 6000

\* C19: a cost or a yield asked for a negative area fails with InvalidInput
\* and returns no value.
C19_NegativeAreaFails ==
    (call.op \in {"cost", "yield"} /\ call.area_hectares < 0)
        => result.status = "InvalidInput"

\* what the code does: a negative area is multiplied like any other
C19_NegativeAreaIsMultiplied ==
    (call.op \in {"cost", "yield"} /\ call.area_hectares < 0)
        => /\ result.status = "ok"
           /\ result.value <= 0

\* a negative cost returned
C19_NegativeCostReturned ==
    /\ call.op = "cost"
    /\ call.operation_type = "planting"
    /\ call.area_hectares = 0 - 2
    /\ result.status = "ok"
    /\ result.value = 0 - 6000

\* a negative yield returned
C19_NegativeYieldReturned ==
    /\ call.op = "yield"
    /\ call.area_hectares < 0
    /\ call.weather_score = 70
    /\ result.status = "ok"
    /\ result.value < 0

----------------------------------------------------------------------------
(* Claims C21, C22: optimize_resource_allocation (SpecAllocate) *)

Allocated == call.op = "allocate"

AllCostsPositive == \A n \in 1..Len(call.resources) : call.resources[n].cost > 0

\* the place of a resource in the input
InputPlace(resource) ==
    CHOOSE n \in 1..Len(call.resources) : call.resources[n].resource = resource

\* twice the benefit of the resource at place n: its hint, or 1.5 times its cost
TwiceBenefit(n) ==
    IF IsNone(call.benefits[n]) THEN 3 * call.resources[n].cost
    ELSE 2 * Val(call.benefits[n])

\* the resource at place n ranks before the one at place m: a greater
\* benefit/cost ratio, or an equal one and an earlier place (costs positive)
RanksBefore(n, m) ==
    LET left == TwiceBenefit(n) * call.resources[m].cost
        right == TwiceBenefit(m) * call.resources[n].cost
    IN  left > right \/ (left = right /\ n < m)

\* the place in the input of the resource ranked k-th
RankedPlace(k) ==
    CHOOSE n \in 1..Len(call.resources) :
        Cardinality({m \in 1..Len(call.resources) : RanksBefore(m, n)}) = k - 1

RECURSIVE SumAmounts(_, _)
SumAmounts(allocation, upto) ==
    IF upto = 0 THEN 0 ELSE allocation[upto].amount + SumAmounts(allocation, upto - 1)

RECURSIVE SumCosts(_, _)
SumCosts(resources, upto) ==
    IF upto = 0 THEN 0 ELSE resources[upto].cost + SumCosts(resources, upto - 1)

\* the budget left before the k-th entry of the allocation
RemainingBefore(k) == call.budget - SumAmounts(result.optimized_allocation, k - 1)

\* C21: the resources are served in descending benefit/cost ratio, equal ratios
\* in input order; each gets its full cost while that is within the remaining
\* budget, the first that is not gets the remaining budget, and none ranked
\* after the budget reached 0 gets anything, so none is passed over.
C21_GreedyByRatio ==
    (Allocated /\ AllCostsPositive) =>
        LET allocation == result.optimized_allocation
        IN  /\ Len(allocation) <= Len(call.resources)
            /\ \A k \in 1..Len(allocation) :
                /\ allocation[k].resource = call.resources[RankedPlace(k)].resource
                /\ RemainingBefore(k) > 0 \/ k = 1
                /\ allocation[k].amount =
                       IF call.resources[RankedPlace(k)].cost <= RemainingBefore(k)
                       THEN call.resources[RankedPlace(k)].cost
                       ELSE RemainingBefore(k)
            /\ Len(allocation) < Len(call.resources)
                   => RemainingBefore(Len(allocation) + 1) <= 0

\* C21 witness: three resources served in an order other than the input's, the
\* second paid in part and the third left out
C21_Witness ==
    /\ Allocated
    /\ AllCostsPositive
    /\ Len(call.resources) = 3
    /\ Len(result.optimized_allocation) = 2
    /\ result.optimized_allocation[1].resource = "C"
    /\ result.optimized_allocation[2].resource = "A"
    /\ result.optimized_allocation[2].amount > 0
    /\ result.optimized_allocation[2].amount < call.resources[1].cost
    /\ call.resources[2].cost < call.resources[1].cost

\* resources of equal ratio served in input order
C21_TieInInputOrder ==
    /\ Allocated
    /\ AllCostsPositive
    /\ Len(result.optimized_allocation) = 3
    /\ call.benefits = <<None, Some(3), None>>
    /\ call.resources[2].cost = 2
    /\ result.optimized_allocation[1].resource = "A"
    /\ result.optimized_allocation[2].resource = "B"
    /\ result.optimized_allocation[3].resource = "C"

\* the amount of a resource in the allocation, 0 when it has no entry
AmountOf(resource) ==
    LET entries == {k \in 1..Len(result.optimized_allocation) :
                       result.optimized_allocation[k].resource = resource}
    IN  IF entries = {} THEN 0
        ELSE result.optimized_allocation[CHOOSE k \in entries : TRUE].amount

\* C22: with positive costs and a budget >= 0 the amounts sum to the smaller of
\* the budget and the sum of the costs, and each amount is between 0 and the
\* cost of its resource.
C22_AmountsSumToMin ==
    (Allocated /\ AllCostsPositive /\ call.budget >= 0) =>
        /\ SumAmounts(result.optimized_allocation, Len(result.optimized_allocation))
               = Min(call.budget, SumCosts(call.resources, Len(call.resources)))
        /\ \A n \in 1..Len(call.resources) :
            /\ AmountOf(call.resources[n].resource) >= 0
            /\ AmountOf(call.resources[n].resource) <= call.resources[n].cost

\* C22 witness: the claim's example in units of 50 (costs 2 and 4, budget 3, no
\* benefit hints): the first gets its cost, the second the rest
C22_Witness ==
    /\ Allocated
    /\ call.resources = <<[resource |-> "A", cost |-> 2], [resource |-> "B", cost |-> 4]>>
    /\ call.benefits = <<None, None>>
    /\ call.budget = 3
    /\ result.optimized_allocation =
           <<[resource |-> "A", amount |-> 2], [resource |-> "B", amount |-> 1]>>

----------------------------------------------------------------------------
(* Claims C23, C24: the net benefit (SpecBudget) *)

\* (added returns + reduced costs) - (added costs + reduced returns)
NetOf(input_data) ==
    (input_data.added_returns + input_data.reduced_costs)
        - (input_data.added_costs + input_data.reduced_returns)

\* C23: the net benefit is (added returns + reduced costs) - (added costs +
\* reduced returns), the change is profitable exactly when that is above 0, and
\* the recommendation is to proceed exactly when it is above 0, neutral exactly
\* when it is 0, and not to proceed, with the loss as a positive amount, exactly
\* when it is below 0.
C23_NetBenefitAndRecommendation ==
    call.op = "net_benefit" =>
        LET net == NetOf(call.input_data)
            answer == result.response
        IN  /\ answer.net_benefit = net
            /\ answer.is_profitable <=> net > 0
            /\ net > 0 <=> answer.recommendation.text
                               = "Proceed with the change. Expected net benefit"
            /\ net = 0 <=> answer.recommendation.text
                               = "The change is neutral. Consider other factors before proceeding."
            /\ net < 0 <=> (/\ answer.recommendation.text = "Do not proceed. Expected net loss"
                            /\ answer.recommendation.amount = Some(0 - net))

\* C23 witness: scenario C in hundreds (10 + 2 against 5 + 0): net 7, profitable
C23_Witness ==
    /\ call.op = "net_benefit"
    /\ call.input_data = [added_returns |-> 10, reduced_costs |-> 2,
                          added_costs |-> 5, reduced_returns |-> 0]
    /\ result.response.net_benefit = 7
    /\ result.response.is_profitable
    /\ result.response.recommendation.amount = Some(7)

\* a neutral change and a loss
C23_NeutralAndLoss ==
    /\ call.op = "net_benefit"
    /\ \/ /\ result.response.net_benefit = 0
          /\ call.input_data.added_returns = 5
          /\ ~result.response.is_profitable
       \/ /\ result.response.net_benefit = 0 - 3
          /\ result.response.recommendation.amount = Some(3)

\* the value of a key of a state, 0 for a key that is missing
ValueOr0(o) == IF o = None THEN 0 ELSE o[1]

\* C24: the four inputs derived from two scenarios are all >= 0, at most one
\* of added and reduced returns and at most one of added and reduced costs is
\* not 0, and the net benefit is (proposed yield - current yield) - (proposed
\* costs - current costs).
C24_DerivedInputs ==
    call.op = "analyze" =>
        LET derived == result.input_data
        IN  /\ derived.added_returns >= 0
            /\ derived.reduced_returns >= 0
            /\ derived.added_costs >= 0
            /\ derived.reduced_costs >= 0
            /\ derived.added_returns = 0 \/ derived.reduced_returns = 0
            /\ derived.added_costs = 0 \/ derived.reduced_costs = 0
            /\ result.response.net_benefit =
                   (ValueOr0(call.proposed_state.expected_yield_value)
                        - ValueOr0(call.current_state.current_yield_value))
                   - (ValueOr0(call.proposed_state.expected_costs)
                          - ValueOr0(call.current_state.current_costs))

\* C24 witness: a yield that falls and costs that rise
C24_Witness ==
    /\ call.op = "analyze"
    /\ call.current_state = [current_yield_value |-> Some(5), current_costs |-> Some(1)]
    /\ call.proposed_state = [expected_yield_value |-> Some(2), expected_costs |-> Some(2)]
    /\ result.input_data = [added_returns |-> 0, reduced_returns |-> 3,
                            reduced_costs |-> 0, added_costs |-> 1]
    /\ result.response.net_benefit = 0 - 4

----------------------------------------------------------------------------
(* Claim C25: the dry-weather flag and the dates ranked (SpecRank) *)

\* the dates of a list of windows
DatesOf(windows) == {windows[n].date : n \in 1..Len(windows)}

\* the same call made with the other value of requires_dry_weather
OtherPass ==
    get_optimal_weather_window(forecast, call.start_date, call.end_date,
                               ~call.requires_dry_weather)

\* C25: for any forecast and date range the windows returned are for the same
\* dates whether dry weather is required or not, so the pass without the
\* requirement is empty whenever the pass with it is.
C25_SameDatesEitherFlag ==
    Ranked =>
        /\ DatesOf(result.windows) = DatesOf(OtherPass)
        /\ Len(result.windows) = Len(OtherPass)
        /\ result.windows = <<>> <=> OtherPass = <<>>

\* C25 witness: a rainy day ranked with dry weather required, scored
\* differently by the other pass
C25_Witness ==
    /\ Ranked
    /\ call.requires_dry_weather
    /\ Len(result.windows) = 2
    /\ \E n \in 1..2 : \E m \in 1..2 :
        /\ result.windows[n].precipitation > 0
        /\ OtherPass[m].date = result.windows[n].date
        /\ OtherPass[m].weather_score # result.windows[n].weather_score

\* in predict_optimal_date (SpecRecommend): the call fails exactly when the
\* dry pass is empty, and the windows of a call that succeeds carry the scores
\* of the dry pass
C25_RetryChangesNothing ==
    call.op = "recommend" /\ result.status # "NameError" =>
        LET dry_pass == get_optimal_weather_window(forecast, now,
                                                   now + timedelta(HorizonDays), TRUE)
        IN  /\ result.status = "No suitable weather windows found" <=> dry_pass = <<>>
            /\ result.status = "ok" => result.optimal_windows = dry_pass

----------------------------------------------------------------------------
(* Claim C26: the budget step and the date chosen (SpecRecommend) *)

\* the budget step kept every window or none (and then took every window back)
AllOrNoneKept == Len(result.suitable_windows) = Len(result.optimal_windows)

\* the window chosen has the greatest score of the windows ranked, and is the
\* earliest day of the forecast among those of that score
ChosenHasBestWeather ==
    \A n \in 1..Len(result.optimal_windows) :
        /\ result.optimal_windows[n].weather_score <= result.best_window.window.weather_score
        /\ result.optimal_windows[n].weather_score = result.best_window.window.weather_score
               => PlaceOf(result.best_window.window) <= PlaceOf(result.optimal_windows[n])

C26_BestWeatherUnlessNegativeArea ==
    Recommended =>
        /\ AllOrNoneKept
        /\ \A n \in 1..Len(result.suitable_windows) :
            result.suitable_windows[n].estimated_cost = result.estimated_cost
        /\ (field.area_hectares >= 0 \/ result.relaxed) => ChosenHasBestWeather

\* a field of negative area: the windows are sorted by a net return that falls
\* as the score rises, and the day of worst weather is recommended
C26_WorstWeatherChosen ==
    /\ Recommended
    /\ field.area_hectares < 0
    /\ ~result.relaxed
    /\ Len(result.optimal_windows) = 2
    /\ result.best_window.window.weather_score < result.optimal_windows[1].weather_score

----------------------------------------------------------------------------
(* Claims C27, C28: the dates of generate_optimized_schedule (SpecSchedule) *)

\* the stage duration of the k-th operation, in days
DurationOf(k) == growth_stages(field.crop_type, result.operations[k])

C27_SevenDayStageMovedBack ==
    /\ Generated
    /\ Len(result.steps) = 2
    /\ DurationOf(2) = SearchDays
    /\ result.steps[2].optimal_date < result.steps[2].proposed_date

\* the precipitation forecast for the day of the timestamp chosen
PrecipitationOn(chosen) ==
    LET e == CHOOSE e \in {forecast[i] : i \in 1..Len(forecast)} :
                 e.date = chosen \div TicksPerDay
    IN  e.precipitation_sum

\* the search for the proposed date p has a dry day to choose
DryDayNear(p) == \E e \in NearbyEntries(p) : e.precipitation_sum = 0

C28_ChosenScoresHighest ==
    Generated =>
        \A k \in 1..Len(result.steps) :
            (Rejected(result.steps[k].proposed_date)
                 /\ DryDayNear(result.steps[k].proposed_date))
                => \E e \in NearbyEntries(result.steps[k].proposed_date) :
                    /\ result.steps[k].optimal_date = fromisoformat(e.date)
                    /\ DryScore(e) >= 70
                    /\ \A o \in NearbyEntries(result.steps[k].proposed_date) :
                        o.precipitation_sum = 0 => DryScore(o) <= DryScore(e)

\* the search returns the day that was rejected: 1 mm of rain at 25 C scores
\* 90, above a dry day at 36 C
C28_RejectedDayChosenAgain ==
    /\ Generated
    /\ Len(result.steps) >= 1
    /\ Rejected(result.steps[1].proposed_date)
    /\ DryDayNear(result.steps[1].proposed_date)
    /\ result.steps[1].optimal_date \div TicksPerDay
           = result.steps[1].proposed_date \div TicksPerDay
    /\ PrecipitationOn(result.steps[1].optimal_date) = 1

----------------------------------------------------------------------------
(* Claims C29, C30: the save inside get_weather_forecast (SpecForecast) *)

\* the provider answered the request of the call
FetchSucceeded == call.op = "forecast" /\ call.fetched # None

\* C29: the call returns cached data or raises data-unavailable only if the
\* request to the provider failed: whenever the provider answered, the caller
\* gets the forecast just fetched, even if writing it to the cache fails.
C29_LiveForecastWhenFetched ==
    (CallEnded /\ FetchSucceeded) =>
        /\ result.status = "ok"
        /\ result.forecast = Val(call.fetched)

\* what the code holds to: the forecast fetched is returned when its rows were
\* written, and a call whose request failed never returns live data
C29_LiveForecastWhenSaved ==
    /\ (CallEnded /\ io = <<"requests.get">>) =>
        /\ FetchSucceeded
        /\ result.status = "ok"
        /\ result.forecast = Val(call.fetched)
    /\ (CallEnded /\ result.status = "ok" /\ ~result.forecast.is_offline_data)
           => FetchSucceeded

\* the provider answered, the commit raised, and the caller got cached rows
\* in place of the forecast fetched
C29_CachedDataAfterLiveFetch ==
    /\ CallEnded
    /\ FetchSucceeded
    /\ result.status = "ok"
    /\ result.forecast.is_offline_data
    /\ result.forecast.daily = <<>>
    /\ Val(call.fetched).daily # <<>>

\* the provider answered, the commit raised on an empty cache, and the call
\* raised data-unavailable
C29_UnavailableAfterLiveFetch ==
    /\ CallEnded
    /\ FetchSucceeded
    /\ result.status = "Weather data unavailable online and offline"

\* C30: the cache holds at most one row for a location and a time, so the
\* rows read by the fallback are of distinct times.
C30_OneRowPerLocationAndTime ==
    \A n \in 1..Len(weather_rows), m \in 1..Len(weather_rows) :
        (/\ weather_rows[n].location_lat = weather_rows[m].location_lat
         /\ weather_rows[n].location_lon = weather_rows[m].location_lon
         /\ weather_rows[n].date = weather_rows[m].date)
            => n = m

\* what the code holds to: every fetch that was saved added one row for each
\* hourly entry of its forecast, whatever the table held
C30_OneRowPerEntrySaved ==
    [][(pc = "line 31" /\ pc' = "returned")
          => Len(weather_rows') = Len(weather_rows) + Len(result'.forecast.hourly)]_vars

\* two fetches of the same hours, and a fallback that returns an hour twice
C30_FallbackReturnsHourTwice ==
    /\ FellBack
    /\ result.status = "ok"
    /\ \E i \in 1..Len(result.forecast.hourly), j \in 1..Len(result.forecast.hourly) :
        /\ i # j
        /\ result.forecast.hourly[i].time = result.forecast.hourly[j].time

====
